---- MODULE Spec2Model ----
(***************************************************************************)
(* light-auth: registration, login, logout, e-mail verification and        *)
(* password reset by one-time codes, and the authenticate / authorize      *)
(* middleware pair, as a state machine over the user collection, the       *)
(* session store, the issued tokens and the requests in flight.            *)
(*                                                                         *)
(* Every route handler is split at the awaits at which another request     *)
(* can run against the user collection: the step that reads (findOne) and  *)
(* the step that writes (create / save).  Spec interleaves the steps of    *)
(* the requests in flight; SpecSeq handles one request after another.      *)
(***************************************************************************)
EXTENDS Integers, Sequences, FiniteSets, TLC

(* ------------------------------ bounds --------------------------------- *)
\* workflow requests that are in flight or have taken effect in one behaviour
MaxReqs == 3
\* clock ticks in one behaviour
MaxTicks == 2
\* milliseconds per clock tick: two thirds of the lifetime of a code
TickMs == 200 * 1000
\* request slots: the requests that can be in flight at once
Slots == {"r1", "r2"}
\* the slot used when requests are handled one after another
SeqSlot == "r1"
\* session handles (cookies) of the clients
Handles == {"s1"}
\* values crypto.randomBytes can return for one byte (a sample of 0..255)
Bytes == {0, 1, 10}

(* ------------------------- characters and strings ---------------------- *)
\* strings are sequences of one-character strings
Lower(c) == CASE c = "A" -> "a" [] c = "B" -> "b" [] OTHER -> c
IsUpper(c) == c \in {"A", "B", "P"}
IsLower(c) == c \in {"a", "b", "c", "o", "p", "s", "w", "r", "d"}
IsDigit(c) == c \in {"0", "1", "2", "3", "4", "5", "6", "7", "8", "9"}
\* the symbol class of validatePassword: [!@#$%^&*()_+\-=\[\]{};':"\\|,.<>\/?]
IsSymbol(c) == c \in {"!", "@", "#", "$", "%", "^", "&", "*", "(", ")", "_", "+", "-", "=",
                      "[", "]", "{", "}", ";", "'", ":", "|", ",", ".", "<", ">", "/", "?"}
NoSpaceAt(c) == c # " " /\ c # "@"

EmailLower == <<"a", "@", "b", ".", "c", "o">>
EmailUpper == <<"A", "@", "b", ".", "c", "o">>
EmailBad == <<"a", "b">>
NoString == <<>>
Emails == {EmailLower, EmailUpper}

Pw1 == <<"p", "a", "s", "s", "w", "o", "r", "1">>
Pw2 == <<"p", "a", "s", "s", "w", "o", "r", "2">>
PwShort == <<"p", "w">>
Passwords == {Pw1, Pw2}

(* ------------------------------ validators ----------------------------- *)
\* a check that takes every string for an email address
validateEmailAny(email) == TRUE

\* /^[^\s@]+@[^\s@]+\.[^\s@]{2,}$/ on a string
validateEmail(email) ==
    \E i \in 1..Len(email) : \E j \in 1..Len(email) :
        /\ email[i] = "@"
        /\ email[j] = "."
        /\ 1 < i /\ i + 1 < j /\ j + 2 <= Len(email)
        /\ \A k \in 1..Len(email) : k # i => NoSpaceAt(email[k])

\* express-validator isEmail(): local part, "@", a domain with a dot and a
\* top-level label of at least two letters
isEmail(email) ==
    \E i \in 1..Len(email) : \E j \in 1..Len(email) :
        /\ email[i] = "@"
        /\ email[j] = "."
        /\ 1 < i /\ i + 1 < j /\ j + 2 <= Len(email)
        /\ \A k \in 1..Len(email) : k # i => NoSpaceAt(email[k])
        /\ \A k \in (j + 1)..Len(email) : IsLower(email[k]) \/ IsUpper(email[k])

\* express-validator normalizeEmail(): lowercases the address
normalizeEmail(email) == [k \in 1..Len(email) |-> Lower(email[k])]

defaultPasswordPolicy ==
    [minLength |-> 8, requireUppercase |-> FALSE, requireLowercase |-> FALSE,
     requireNumbers |-> FALSE, requireSymbols |-> FALSE]

\* validatePassword(policy)(password): "" when valid, else the error message
validatePassword(policy, password) ==
    IF Len(password) < policy.minLength THEN "Password must be at least minLength characters long."
    ELSE IF policy.requireUppercase /\ ~(\E k \in 1..Len(password) : IsUpper(password[k]))
        THEN "Password must contain at least one uppercase letter."
    ELSE IF policy.requireLowercase /\ ~(\E k \in 1..Len(password) : IsLower(password[k]))
        THEN "Password must contain at least one lowercase letter."
    ELSE IF policy.requireNumbers /\ ~(\E k \in 1..Len(password) : IsDigit(password[k]))
        THEN "Password must contain at least one number."
    ELSE IF policy.requireSymbols /\ ~(\E k \in 1..Len(password) : IsSymbol(password[k]))
        THEN "Password must contain at least one symbol."
    ELSE ""

(* ------------------------------- hasher -------------------------------- *)
BcryptRounds == 12
\* bcrypt.hash(secret, 12), an ideal hash: the digest determines the secret
BcryptHash(secret) == [alg |-> "bcrypt", rounds |-> BcryptRounds, of |-> secret]

\* a comparison that accepts every password
BcryptCompareAny(secret, digest) == TRUE

\* bcrypt.compare(secret, digest)
BcryptCompare(secret, digest) == digest.alg = "bcrypt" /\ digest.of = secret

(* --------------------------- one-time codes ---------------------------- *)
\* configured code length (otpLength) and lifetime (otpExpiryMinutes)
OtpLength == 1
OtpExpiryMinutes == 5
MsPerMinute == 60000
NoExpiry == -1
Digits == <<"0", "1", "2", "3", "4", "5", "6", "7", "8", "9">>

\* generateOTP(length, "numeric") for the random bytes drawn: every
\* character is charset[byte % charset.length]
generateOTP(length, bytes) ==
    [i \in 1..length |-> Digits[(bytes[i] % Len(Digits)) + 1]]

\* the codes generateOTP can produce from the sampled bytes
GeneratedOtps == {generateOTP(OtpLength, b) : b \in [1..OtpLength -> Bytes]}
\* codes a client can submit: the generated ones and one of a wrong length
OtpInputs == GeneratedOtps \cup {<<"0", "1">>}

\* crypto.timingSafeEqual on buffers of equal length
timingSafeEqual(a, b) == \A i \in 1..Len(a) : a[i] = b[i]

\* a check that takes any supplied code while a code is pending
isOTPValidAnyCode(storedOtp, expiry, providedOtp, t) ==
    storedOtp # NoString /\ expiry # NoExpiry /\ providedOtp # NoString /\ t <= expiry

\* a check that does not look at the expiry
isOTPValidAnyTime(storedOtp, expiry, providedOtp, t) ==
    storedOtp # NoString /\ storedOtp = providedOtp

\* isOTPValid(storedOtp, expiry, providedOtp) evaluated at time t
isOTPValid(storedOtp, expiry, providedOtp, t) ==
    IF storedOtp = NoString \/ expiry = NoExpiry \/ providedOtp = NoString THEN FALSE
    ELSE IF t > expiry THEN FALSE
    ELSE Len(storedOtp) = Len(providedOtp) /\ timingSafeEqual(storedOtp, providedOtp)

\* crypto.timingSafeEqual throws a RangeError on buffers of different lengths
timingSafeEqualThrows(a, b) == Len(a) # Len(b)

\* whether isOTPValid(storedOtp, expiry, providedOtp) throws at time t: only
\* timingSafeEqual can, and it is reached after the checks before it
isOTPValidThrows(storedOtp, expiry, providedOtp, t) ==
    IF storedOtp = NoString \/ expiry = NoExpiry \/ providedOtp = NoString THEN FALSE
    ELSE IF t > expiry THEN FALSE
    ELSE Len(storedOtp) = Len(providedOtp) /\ timingSafeEqualThrows(storedOtp, providedOtp)

\* body("otp").isLength({min: len, max: len})
otpLengthOk(otp, len) == Len(otp) = len

(* ------------------------------- tokens -------------------------------- *)
JwtSecret == "secret"
\* jwtConfig.expiresIn, in seconds
JwtExpiresIn == 400
Sec(ms) == ms \div 1000

\* a signature that claims the role admin for everybody
JwtSignAdmin(id, role, secret, expiresIn, t) ==
    [form |-> "jwt", id |-> id, role |-> "admin", iat |-> Sec(t),
     exp |-> Sec(t) + expiresIn, sig |-> secret]

\* a signature whose expiry is left out of reach
JwtSignForever(id, role, secret, expiresIn, t) ==
    [form |-> "jwt", id |-> id, role |-> role, iat |-> Sec(t),
     exp |-> Sec(t) + expiresIn * 100, sig |-> secret]

\* jwt.sign({id, role}, secret, {expiresIn}) at time t (ms)
JwtSign(id, role, secret, expiresIn, t) ==
    [form |-> "jwt", id |-> id, role |-> role, iat |-> Sec(t),
     exp |-> Sec(t) + expiresIn, sig |-> secret]

\* a verification that does not look at the signature
JwtVerifyErrorUnsigned(token, secret, t) ==
    IF token.form # "jwt" THEN "JsonWebTokenError"
    ELSE IF Sec(t) >= token.exp THEN "TokenExpiredError"
    ELSE ""

\* jwt.verify(token, secret) at time t: the error name, or "" when it verifies
JwtVerifyError(token, secret, t) ==
    IF token.form # "jwt" THEN "JsonWebTokenError"
    ELSE IF token.sig # secret THEN "JsonWebTokenError"
    ELSE IF Sec(t) >= token.exp THEN "TokenExpiredError"
    ELSE ""

\* the payload jwt.verify returns
JwtDecoded(token) ==
    [id |-> token.id, role |-> token.role, iat |-> token.iat, exp |-> token.exp]

\* tokens nobody issued: not a JWT, signed with another key, and signed with
\* the right key but lacking id or role
ForgedTokens ==
    { [form |-> "garbage", id |-> 0, role |-> "", iat |-> 0, exp |-> 0, sig |-> ""],
      [form |-> "jwt", id |-> 1, role |-> "admin", iat |-> 0, exp |-> JwtExpiresIn * 100, sig |-> "other"],
      [form |-> "jwt", id |-> 0, role |-> "user", iat |-> 0, exp |-> JwtExpiresIn * 100, sig |-> JwtSecret],
      [form |-> "jwt", id |-> 1, role |-> "", iat |-> 0, exp |-> JwtExpiresIn * 100, sig |-> JwtSecret] }
EmptyToken == [form |-> "empty", id |-> 0, role |-> "", iat |-> 0, exp |-> 0, sig |-> ""]

(* ---------------------------- configuration ---------------------------- *)
Roles == {"user", "admin"}
RoleInputs == {"user", "admin", "root"}
\* the configurations setupAuth is called with
Configs ==
    [useSession : BOOLEAN, verifyEnabled : {TRUE}, requiredToLogin : BOOLEAN,
     forgotEnabled : {TRUE}, roles : {Roles}]
\* the same with a role set that leaves out the default role "user"
RoleConfigs == {[cfg EXCEPT !.roles = roles] : cfg \in Configs, roles \in {Roles, {"admin"}}}

\* a check that lets the default role through whatever is configured
roleAllowedDefault(roles, role) == role \in roles \/ role = "user"

\* registerRoute: roles.includes(role)
roleAllowed(roles, role) == role \in roles

\* the error of registerRoute for a role outside the set: the roles joined
RoleError(roles) ==
    IF roles = {"admin"} THEN "Invalid role. Allowed: admin"
    ELSE "Invalid role. Allowed: user, admin"
\* a setup that never requires the verification
requireEmailVerifiedNever(cfg) == FALSE

\* setupAuth: requireEmailVerified = !!(emailVerification && emailVerification.requiredToLogin)
requireEmailVerified(cfg) == cfg.requiredToLogin

\* rateLimiting.login.max and rateLimiting.register.max
RateLimitMax == 5
LimitedRoutes == {"login", "register"}
\* the client keys (IP addresses): the one whose requests hits counts, and
\* the clients that stay within their limits
WatchedKey == "k1"
ClientKeys == {WatchedKey, "others"}

(* -------------------------------- setup -------------------------------- *)
\* the calls of setupAuth made on one app
SetupCalls == {"c1", "c2", "c3"}
FirstCall == "c1"

\* an app nothing is registered on
NewApp == [sessionInitialized |-> FALSE, session |-> 0, helmet |-> 0, routers |-> 0]

\* a setup that registers the session middleware whenever sessions are used
SessionNeededAlways(useSession, initialized) == useSession

\* setupAuth step 7: useSession && !app._sessionInitialized
SessionNeeded(useSession, initialized) == useSession /\ ~initialized

\* setupAuth steps 6 to 10, which run without an await in between: helmet,
\* the session middleware once per app (setupSession throws on a bad
\* sessionConfig, before app.use and before the flag is set), the auth
\* router, then the email router unless the mailer is missing in production
Wired(a, useSession, sessionOk, mailerOk) ==
    LET a6 == [a EXCEPT !.helmet = @ + 1]
        a7 == [a6 EXCEPT !.session = @ + 1, !.sessionInitialized = TRUE]
        a9(x) == [x EXCEPT !.routers = @ + 1]
    IN  IF SessionNeeded(useSession, a.sessionInitialized)
        THEN IF ~sessionOk THEN [app |-> a6, pc |-> "failed"]
             ELSE IF ~mailerOk THEN [app |-> a9(a7), pc |-> "failed"]
             ELSE [app |-> a9(a9(a7)), pc |-> "done"]
        ELSE IF ~mailerOk THEN [app |-> a9(a6), pc |-> "failed"]
             ELSE [app |-> a9(a9(a6)), pc |-> "done"]

(* -------------------------------- state -------------------------------- *)
VARIABLES
    config,     \* the merged configuration of setupAuth
    now,        \* Date.now(), in ms
    users,      \* the user collection: a sequence of documents, _id = index
    sessions,   \* the session store: handle -> {} or {session.user}
    tokens,     \* the tokens login has signed
    slot,       \* the workflow requests in flight and their responses
    guard,      \* the last request to a guarded route and its outcome
    curSerial,  \* <<_id, purpose>> -> number of codes stored so far
    redeemed,   \* the redemptions answered with success
    pwSet,      \* _id -> the password register or reset-password last set
    hits,       \* limited route -> requests counted for the client key watched
    nreq,       \* requests started so far
    call,       \* a call of a function of the library on its own, and what it returned
    app,        \* the Express app: what setupAuth has registered on it
    setups      \* the calls of setupAuth on the app and how far each has got

vars == <<config, now, users, sessions, tokens, slot, guard, curSerial, redeemed, pwSet,
          hits, nreq, call, app, setups>>

\* no function is called on its own
NoCall == [fn |-> "none", args |-> <<>>, returned |-> FALSE, result |-> FALSE, threw |-> FALSE]

\* sent is the email as submitted, kept with the answer of a request that ends
\* at the lookup; email is the key the handler looks up
EmptyReq ==
    [op |-> "none", pc |-> "idle", email |-> NoString, password |-> NoString,
     role |-> "", otp |-> NoString, sid |-> "", uid |-> 0, serial |-> 0,
     replay |-> FALSE, status |-> 0, body |-> "", token |-> {}, user |-> {},
     hooks |-> {}, threw |-> FALSE, at |-> 0, sent |-> NoString]

EmptyGuard ==
    [route |-> "none", sid |-> "", header |-> [scheme |-> "", rest |-> <<>>],
     allowed |-> {}, user |-> {}, status |-> 0, body |-> "", reached |-> FALSE, at |-> 0]

Purposes == {"verify", "reset"}
UserIds == 1..Cardinality(Emails)

(* ------------------------------ repository ----------------------------- *)
\* a lookup that finds nobody
FindOneNobody(email) == 0

\* UserModel.findOne({email}): the _id of the document found, 0 when none
FindOne(email) ==
    IF \E i \in 1..Len(users) : users[i].email = email
    THEN CHOOSE i \in 1..Len(users) :
            /\ users[i].email = email
            /\ \A j \in 1..Len(users) : users[j].email = email => i <= j
    ELSE 0

\* a document that is created already verified
NewUserVerified(id, email, hashed, role) ==
    [_id |-> id, email |-> email, password |-> hashed, role |-> role,
     verified |-> TRUE, emailOtp |-> NoString, emailOtpExpires |-> NoExpiry,
     resetOtp |-> NoString, resetOtpExpires |-> NoExpiry]

\* the document UserModel.create({email, password, role}) stores: the schema
\* defaults verified to false and leaves the code fields unset
NewUser(id, email, hashed, role) ==
    [_id |-> id, email |-> email, password |-> hashed, role |-> role,
     verified |-> FALSE, emailOtp |-> NoString, emailOtpExpires |-> NoExpiry,
     resetOtp |-> NoString, resetOtpExpires |-> NoExpiry]

\* the collection the application is started on: empty, or holding an
\* identity registered before
InitialUsers == {<<>>, <<NewUser(1, EmailLower, BcryptHash(Pw1), "user")>>}
\* the passwords the identities of the collection were registered with
InitialPasswords(us) == [i \in UserIds |-> IF i <= Len(us) THEN Pw1 ELSE NoString]

Init ==
    /\ config \in Configs
    /\ now = 0
    /\ users \in InitialUsers
    /\ sessions = [h \in Handles |-> {}]
    /\ tokens = {}
    /\ slot = [r \in Slots |-> EmptyReq]
    /\ guard = EmptyGuard
    /\ curSerial = [k \in UserIds \X Purposes |-> 0]
    /\ redeemed = {}
    /\ pwSet = InitialPasswords(users)
    /\ hits = [route \in LimitedRoutes |-> 0]
    /\ nreq = 0
    /\ call = NoCall
    /\ app = Wired(NewApp, config.useSession, TRUE, TRUE).app
    /\ setups = [c \in SetupCalls |-> IF c = FirstCall THEN "done" ELSE "start"]

(* ------------------------------ responses ------------------------------ *)
Respond(req, status, body) == [req EXCEPT !.pc = "done", !.status = status, !.body = body]

\* a failure caught by the handler's try/catch: onError is called through
\* callHook and the generic 500 is sent
Caught(req, body) ==
    [req EXCEPT !.pc = "done", !.status = 500, !.body = body,
                !.hooks = @ \cup {"onError"}]

\* a rejection nothing in the handler catches: the framework either leaves
\* the request unanswered or answers with its own error page
\* (status 0: the request ends without a response)
UnhandledOutcomes == {"hang", "framework"}
Uncaught(req, outcome) ==
    IF outcome = "hang"
    THEN [req EXCEPT !.pc = "done", !.status = 0, !.body = ""]
    ELSE [req EXCEPT !.pc = "done", !.status = 500, !.body = "Internal Server Error"]

\* a hook whose error reaches the handler that called it
callHookRethrows(q, hook, throws) ==
    IF throws
    THEN [q EXCEPT !.status = 500, !.body = "Internal Server Error",
                   !.hooks = @ \cup {hook, "onError"}, !.threw = TRUE]
    ELSE [q EXCEPT !.hooks = @ \cup {hook}]

\* callHook(fn, context) on the way to the answer q: the hook runs, and what
\* it throws is logged and goes no further
callHook(q, hook, throws) == [q EXCEPT !.hooks = @ \cup {hook}, !.threw = throws]

\* no finished request is waiting for its response to be taken
Quiet == guard = EmptyGuard /\ \A r \in Slots : slot[r].pc # "done"

\* a new request arrives and takes the free slot r
Begin(r) ==
    /\ Quiet
    /\ slot[r].pc = "idle"
    /\ nreq < MaxReqs
    /\ guard' = guard

\* the request in slot r continues at step pc of handler op
Continue(r, op, pc) ==
    /\ Quiet
    /\ slot[r].op = op
    /\ slot[r].pc = pc
    /\ guard' = guard

\* the step has changed what the server or a client keeps
TookEffect ==
    users' # users \/ sessions' # sessions \/ tokens' # tokens \/ curSerial' # curSerial

\* nreq counts the requests in flight and those that took effect: the first
\* step of a request counts it unless it ends there without effect, a later
\* step uncounts it when it ends without effect
Counted(r) ==
    nreq' = IF slot[r].pc = "idle"
            THEN (IF slot'[r].pc # "done" \/ TookEffect THEN nreq + 1 ELSE nreq)
            ELSE (IF TookEffect THEN nreq ELSE nreq - 1)

\* the responses of the finished requests go out and their slots are free
\* again
Deliver ==
    /\ ~Quiet
    /\ slot' = [r \in Slots |-> IF slot[r].pc = "done" THEN EmptyReq ELSE slot[r]]
    /\ guard' = EmptyGuard
    /\ UNCHANGED <<app, setups, call, config, pwSet, hits, now, users, sessions, tokens, curSerial, redeemed, nreq>>

Faults == {"none", "repo", "hasher"}

(* ----------------------------- rate limiter ---------------------------- *)
\* a limiter that lets one request too many through
LimitReachedLate(n, max) == n > max

\* express-rate-limit: a request is rejected when, counted, it exceeds max;
\* n is the number of requests counted before it in the window
LimitReached(n, max) == n >= max

Limited(key, route) == key = WatchedKey /\ LimitReached(hits[route], RateLimitMax)

\* the count after a request of the key on the route (the count is kept up
\* to one above the limit, beyond which every request is rejected alike)
Hit(key, route) ==
    IF key = WatchedKey /\ hits[route] <= RateLimitMax
    THEN [hits EXCEPT ![route] = @ + 1]
    ELSE hits

\* the answer of the limiter to a request over the limit
TooMany(q, route) ==
    Respond(q, 429, IF route = "login" THEN "Too many login attempts."
                    ELSE "Too many registration attempts.")

\* the window of the route ends: the count starts again
WindowReset(route) ==
    /\ Quiet
    /\ hits[route] > 0
    /\ hits' = [hits EXCEPT ![route] = 0]
    /\ UNCHANGED <<app, setups, call, config, pwSet, now, users, sessions, tokens, slot, guard, curSerial,
                   redeemed, nreq>>

(* ------------------------------ register ------------------------------- *)
\* registerRoute up to the lookup: the limiter, validation, then findOne
RegisterFind(r, key, email, password, role, fault) ==
    LET q == [EmptyReq EXCEPT !.op = "register", !.sent = email, !.email = email,
                              !.password = password,
                              !.role = IF role = "" THEN "user" ELSE role, !.at = now]
    IN  /\ Begin(r)
        /\ hits' = Hit(key, "register")
        /\ slot' = [slot EXCEPT ![r] =
             IF Limited(key, "register") THEN TooMany(q, "register")
             ELSE IF email = NoString \/ ~validateEmail(email) THEN Respond(q, 400, "Invalid email format.")
             ELSE IF validatePassword(defaultPasswordPolicy, password) # ""
                  THEN Respond(q, 400, validatePassword(defaultPasswordPolicy, password))
             ELSE IF ~roleAllowed(config.roles, q.role) THEN Respond(q, 400, RoleError(config.roles))
             ELSE IF fault = "repo" THEN Caught(q, "Registration failed.")
             ELSE IF FindOne(email) # 0 THEN Respond(q, 409, "User already exists.")
             ELSE [q EXCEPT !.pc = "create"]]
        /\ UNCHANGED <<app, setups, call, config, pwSet, now, users, sessions, tokens, curSerial, redeemed>>
        /\ Counted(r)

\* registerRoute from the hash on: bcrypt.hash, UserModel.create (the email
\* index is unique), the onRegister hook through callHook, the 201
RegisterCreate(r, fault, hookThrows) ==
    LET q == slot[r]
        id == Len(users) + 1
    IN  /\ Continue(r, "register", "create")
        /\ IF fault # "none" \/ FindOne(q.email) # 0
           THEN /\ slot' = [slot EXCEPT ![r] = Caught(q, "Registration failed.")]
                /\ UNCHANGED <<users, pwSet>>
           ELSE /\ users' = Append(users, NewUser(id, q.email, BcryptHash(q.password), q.role))
                /\ pwSet' = [pwSet EXCEPT ![id] = q.password]
                /\ slot' = [slot EXCEPT ![r] =
                     callHook([Respond(q, 201, "Registration successful.") EXCEPT
                                 !.uid = id,
                                 !.user = {[_id |-> id, email |-> q.email, role |-> q.role]}],
                              "onRegister", hookThrows)]
        /\ UNCHANGED <<app, setups, call, config, hits, now, sessions, tokens, curSerial, redeemed>>
        /\ Counted(r)

(* -------------------------------- login -------------------------------- *)
\* an answer that tells the email is unknown
UnknownEmailTold(q) == Respond(q, 404, "User not found")

\* the answer when findOne returns no user
UnknownEmail(q) == Respond(q, 401, "Invalid credentials.")
\* the answer when bcrypt.compare returns false
WrongPassword(q) == Respond(q, 401, "Invalid credentials.")

OnLoginResults == {"void", "ext", "throw"}

\* the payload login builds, with the object onLogin returned merged in
UserPayload(u, hookResult) ==
    [_id |-> u._id, email |-> u.email, role |-> u.role,
     plan |-> IF hookResult = "ext" THEN "pro" ELSE ""]

\* loginRoute: the limiter, one lookup, the password check, the verified
\* check, the onLogin hook (called directly), then the session write or the
\* signature
LoginRoute(r, key, email, password, sid, fault, hookResult) ==
    LET q == [EmptyReq EXCEPT !.op = "login", !.sent = email, !.email = email,
                              !.password = password,
                              !.sid = sid, !.at = now]
        uid == FindOne(email)
        u == users[uid]
        denied ==
            IF Limited(key, "login") THEN TooMany(q, "login")
            ELSE IF email = NoString \/ password = NoString
                THEN Respond(q, 400, "Email and password required.")
            ELSE IF fault = "repo" THEN Caught(q, "Login failed.")
            ELSE IF uid = 0 THEN UnknownEmail(q)
            ELSE IF fault = "hasher" THEN Caught([q EXCEPT !.uid = uid], "Login failed.")
            ELSE IF ~BcryptCompare(password, u.password)
                THEN WrongPassword([q EXCEPT !.uid = uid])
            ELSE IF requireEmailVerified(config) /\ ~u.verified
                THEN Respond([q EXCEPT !.uid = uid], 403, "Email not verified. Please verify before logging in.")
            ELSE IF hookResult = "throw"
                THEN Caught([q EXCEPT !.uid = uid, !.hooks = {"onLogin"}, !.threw = TRUE], "Login failed.")
            ELSE q
        token == JwtSign(uid, u.role, JwtSecret, JwtExpiresIn, now)
        payload == UserPayload(u, hookResult)
    IN  /\ Begin(r)
        /\ sid \in (IF config.useSession THEN Handles ELSE {""})
        /\ hits' = Hit(key, "login")
        /\ IF denied.pc = "done"
           THEN /\ slot' = [slot EXCEPT ![r] = denied]
                /\ UNCHANGED <<sessions, tokens>>
           ELSE IF config.useSession
           THEN /\ sessions' = [sessions EXCEPT ![sid] = {payload}]
                /\ slot' = [slot EXCEPT ![r] =
                     [Respond(q, 200, "Logged in via session.") EXCEPT
                        !.uid = uid, !.user = {payload}, !.hooks = {"onLogin"}]]
                /\ tokens' = tokens
           ELSE /\ tokens' = tokens \cup {token}
                /\ slot' = [slot EXCEPT ![r] =
                     [Respond(q, 200, "Logged in via JWT.") EXCEPT
                        !.uid = uid, !.user = {payload}, !.token = {token},
                        !.hooks = {"onLogin"}]]
                /\ sessions' = sessions
        /\ UNCHANGED <<app, setups, call, config, pwSet, now, users, curSerial, redeemed>>
        /\ Counted(r)

(* -------------------------------- logout ------------------------------- *)
\* a destroy that leaves the record in the store
DestroySessionKeeps(store, sid) == store

\* req.session.destroy(): the record of the handle is gone from the store
DestroySession(store, sid) == [store EXCEPT ![sid] = {}]

\* a stateless logout that fails
StatelessLogoutFails(q) == Respond(q, 500, "Failed to log out.")

\* the answer of logout in stateless mode
StatelessLogout(q) == Respond(q, 200, "Client should clear JWT manually.")

\* the token of a header "Bearer <token>", none otherwise
Presented(header) ==
    IF header.scheme = "Bearer" /\ Len(header.rest) >= 1 THEN {header.rest[1]} ELSE {}

\* logoutRoute: session.destroy and then onLogout, or onLogout at once; the
\* user handed to the hooks is req.session.user in stateful mode and null in
\* stateless mode, whatever the request carries
LogoutRoute(r, sid, header, destroyFails, hookThrows) ==
    LET user == IF config.useSession THEN sessions[sid] ELSE {}
        q == [EmptyReq EXCEPT !.op = "logout", !.sid = sid, !.token = Presented(header),
                              !.user = user, !.at = now]
    IN  /\ Begin(r)
        /\ sid \in (IF config.useSession THEN Handles ELSE {""})
        /\ IF config.useSession /\ destroyFails
           THEN /\ slot' = [slot EXCEPT ![r] = Caught(q, "Failed to log out.")]
                /\ sessions' = sessions
           ELSE IF config.useSession
           THEN /\ sessions' = DestroySession(sessions, sid)
                /\ slot' = [slot EXCEPT ![r] =
                     callHook(Respond(q, 200, "Logged out successfully."), "onLogout", hookThrows)]
           ELSE /\ sessions' = sessions
                /\ slot' = [slot EXCEPT ![r] =
                     callHook(StatelessLogout(q), "onLogout", hookThrows)]
        /\ UNCHANGED <<app, setups, call, config, pwSet, hits, now, users, tokens, curSerial, redeemed>>
        /\ Counted(r)

(* ----------------------------- email routes ---------------------------- *)
\* express-validator trim(): strips the blanks at both ends
RECURSIVE trim(_)
trim(str) ==
    IF str = <<>> THEN str
    ELSE IF Head(str) = " " THEN trim(Tail(str))
    ELSE IF str[Len(str)] = " " THEN trim(SubSeq(str, 1, Len(str) - 1))
    ELSE str

\* express-validator escape(): replaces the HTML characters by entities
RECURSIVE escape(_)
escape(str) ==
    IF str = <<>> THEN str
    ELSE (CASE Head(str) = "<" -> <<"&", "l", "t", ";">>
            [] Head(str) = ">" -> <<"&", "g", "t", ";">>
            [] Head(str) = "&" -> <<"&", "a", "m", "p", ";">>
            [] OTHER -> <<Head(str)>>) \o escape(Tail(str))

\* the symbol class of emailValidators.resetPassword: [!@#$%^&*(),.?":{}|<>]
IsResetSymbol(c) == c \in {"!", "@", "#", "$", "%", "^", "&", "*", "(", ")", ",", ".", "?",
                           ":", "{", "}", "|", "<", ">"}

\* the custom check of body("newPassword"): "" when it passes
resetPasswordError(policy, val) ==
    IF Len(val) < policy.minLength THEN "Password must be at least minLength characters."
    ELSE IF policy.requireUppercase /\ ~(\E k \in 1..Len(val) : IsUpper(val[k]))
        THEN "Password must include an uppercase letter."
    ELSE IF policy.requireLowercase /\ ~(\E k \in 1..Len(val) : IsLower(val[k]))
        THEN "Password must include a lowercase letter."
    ELSE IF policy.requireNumbers /\ ~(\E k \in 1..Len(val) : IsDigit(val[k]))
        THEN "Password must include a number."
    ELSE IF policy.requireSymbols /\ ~(\E k \in 1..Len(val) : IsResetSymbol(val[k]))
        THEN "Password must include a symbol."
    ELSE ""

\* getOTPConfig(config, type).expiry, in ms
OtpLifetimeMs == OtpExpiryMinutes * MsPerMinute

\* whether the route of this purpose is mounted
RouteEnabled(purpose) ==
    IF purpose = "verify" THEN config.verifyEnabled ELSE config.forgotEnabled

SendOp(purpose) == IF purpose = "verify" THEN "send-verification-otp" ELSE "send-forgot-otp"

\* /send-verification-otp and /send-forgot-otp up to the lookup
SendOtpFind(r, purpose, email, fault, outcome) ==
    LET q == [EmptyReq EXCEPT !.op = SendOp(purpose), !.sent = email,
                              !.email = normalizeEmail(email), !.at = now]
        uid == FindOne(q.email)
    IN  /\ RouteEnabled(purpose)
        /\ Begin(r)
        /\ slot' = [slot EXCEPT ![r] =
             IF ~isEmail(email) THEN Respond(q, 400, "Valid email required")
             ELSE IF fault = "repo" THEN Uncaught(q, outcome)
             ELSE IF uid = 0 THEN Respond(q, 404, "User not found")
             ELSE [q EXCEPT !.pc = "save", !.sent = NoString, !.uid = uid]]
        /\ UNCHANGED <<app, setups, call, config, pwSet, hits, now, users, sessions, tokens, curSerial, redeemed>>
        /\ Counted(r)

\* a save that keeps a code already stored for the purpose
StoreCodeIfNone(u, purpose, otp, expires) ==
    IF purpose = "verify"
    THEN IF u.emailOtp # NoString THEN u
         ELSE [u EXCEPT !.emailOtp = otp, !.emailOtpExpires = expires]
    ELSE IF u.resetOtp # NoString THEN u
         ELSE [u EXCEPT !.resetOtp = otp, !.resetOtpExpires = expires]

\* a save that writes the code and its expiry into both pairs
StoreCodeBoth(u, purpose, otp, expires) ==
    [u EXCEPT !.emailOtp = otp, !.emailOtpExpires = expires,
              !.resetOtp = otp, !.resetOtpExpires = expires]

\* a save that writes the code and leaves the expiry as it was
StoreCodeOnly(u, purpose, otp, expires) ==
    IF purpose = "verify" THEN [u EXCEPT !.emailOtp = otp] ELSE [u EXCEPT !.resetOtp = otp]

\* the fields user.save() writes for a stored code of the purpose
StoreCode(u, purpose, otp, expires) ==
    IF purpose = "verify"
    THEN [u EXCEPT !.emailOtp = otp, !.emailOtpExpires = expires]
    ELSE [u EXCEPT !.resetOtp = otp, !.resetOtpExpires = expires]

\* /send-verification-otp and /send-forgot-otp from generateOTP on: the code
\* and its expiry are saved, then the mail is sent, then the 200
SendOtpSave(r, purpose, bytes, fault, outcome) ==
    LET q == slot[r]
        otp == generateOTP(OtpLength, bytes)
    IN  /\ Continue(r, SendOp(purpose), "save")
        /\ IF fault = "repo"
           THEN /\ slot' = [slot EXCEPT ![r] = Uncaught(q, outcome)]
                /\ UNCHANGED <<users, curSerial>>
           ELSE /\ users' = [users EXCEPT ![q.uid] = StoreCode(@, purpose, otp, now + OtpLifetimeMs)]
                /\ curSerial' = [curSerial EXCEPT ![<<q.uid, purpose>>] = @ + 1]
                /\ slot' = [slot EXCEPT ![r] =
                     IF fault = "mail" THEN Uncaught([q EXCEPT !.otp = otp], outcome)
                     ELSE Respond([q EXCEPT !.otp = otp], 200,
                            IF purpose = "verify" THEN "Verification OTP sent."
                            ELSE "Password reset OTP sent.")]
        /\ UNCHANGED <<app, setups, call, config, pwSet, hits, now, sessions, tokens, redeemed>>
        /\ Counted(r)

\* the code of user u already redeemed, with no code stored since
Replayed(uid, purpose, otp) ==
    \E x \in redeemed :
        /\ x.uid = uid /\ x.purpose = purpose /\ x.otp = otp
        /\ x.serial = curSerial[<<uid, purpose>>]

\* /verify-email up to the check: validation, findOne, isOTPValid
VerifyEmailFind(r, email, otp, fault, outcome) ==
    LET q == [EmptyReq EXCEPT !.op = "verify-email", !.sent = email,
                              !.email = normalizeEmail(email),
                              !.otp = escape(trim(otp)), !.at = now]
        uid == FindOne(q.email)
        u == users[uid]
    IN  /\ RouteEnabled("verify")
        /\ Begin(r)
        /\ slot' = [slot EXCEPT ![r] =
             IF ~isEmail(email) THEN Respond(q, 400, "Email is required")
             ELSE IF ~otpLengthOk(otp, OtpLength) THEN Respond(q, 400, "OTP must be exactly len characters.")
             ELSE IF fault = "repo" THEN Uncaught(q, outcome)
             ELSE IF uid = 0 THEN Respond(q, 400, "Invalid or expired OTP.")
             ELSE IF ~isOTPValid(u.emailOtp, u.emailOtpExpires, q.otp, now)
                THEN Respond([q EXCEPT !.uid = uid, !.replay = Replayed(uid, "verify", q.otp)],
                             400, "Invalid or expired OTP.")
             ELSE [q EXCEPT !.pc = "save", !.sent = NoString, !.uid = uid, !.serial = curSerial[<<uid, "verify">>],
                            !.replay = Replayed(uid, "verify", q.otp)]]
        /\ UNCHANGED <<app, setups, call, config, pwSet, hits, now, users, sessions, tokens, curSerial, redeemed>>
        /\ Counted(r)

\* a save that leaves the code and its expiry stored
MarkVerifiedOnly(u) == [u EXCEPT !.verified = TRUE]

\* a save that clears the code and leaves its expiry stored
MarkVerifiedKeepsExpiry(u) == [u EXCEPT !.verified = TRUE, !.emailOtp = NoString]

\* a save that clears the pair and leaves verified as it was
ClearCodeOnly(u) == [u EXCEPT !.emailOtp = NoString, !.emailOtpExpires = NoExpiry]

\* the fields user.save() writes in /verify-email
MarkVerified(u) ==
    [u EXCEPT !.verified = TRUE, !.emailOtp = NoString, !.emailOtpExpires = NoExpiry]

\* /verify-email from the save on: the save, the onVerify hook (called
\* directly), the 200
VerifyEmailSave(r, fault, hookThrows, outcome) ==
    LET q == slot[r]
    IN  /\ Continue(r, "verify-email", "save")
        /\ IF fault = "repo"
           THEN /\ slot' = [slot EXCEPT ![r] = Uncaught(q, outcome)]
                /\ UNCHANGED <<users, redeemed>>
           ELSE /\ users' = [users EXCEPT ![q.uid] = MarkVerified(@)]
                /\ IF hookThrows
                   THEN /\ slot' = [slot EXCEPT ![r] =
                             Uncaught([q EXCEPT !.hooks = {"onVerify"}, !.threw = TRUE], outcome)]
                        /\ redeemed' = redeemed
                   ELSE /\ slot' = [slot EXCEPT ![r] =
                             [Respond(q, 200, "Email verified successfully.") EXCEPT
                                !.hooks = {"onVerify"}]]
                        /\ redeemed' = redeemed \cup
                             {[uid |-> q.uid, purpose |-> "verify", otp |-> q.otp, serial |-> q.serial]}
        /\ UNCHANGED <<app, setups, call, config, pwSet, hits, now, sessions, tokens, curSerial>>
        /\ Counted(r)

\* /reset-password up to the check: validation, findOne, isOTPValid
ResetPasswordFind(r, email, otp, newPassword, fault, outcome) ==
    LET q == [EmptyReq EXCEPT !.op = "reset-password", !.sent = email,
                              !.email = normalizeEmail(email),
                              !.otp = escape(trim(otp)), !.password = newPassword, !.at = now]
        uid == FindOne(q.email)
        u == users[uid]
    IN  /\ RouteEnabled("reset")
        /\ Begin(r)
        /\ slot' = [slot EXCEPT ![r] =
             IF ~isEmail(email) THEN Respond(q, 400, "Email is required")
             ELSE IF ~otpLengthOk(otp, OtpLength) THEN Respond(q, 400, "OTP must be exactly len characters.")
             ELSE IF resetPasswordError(defaultPasswordPolicy, newPassword) # ""
                THEN Respond(q, 400, resetPasswordError(defaultPasswordPolicy, newPassword))
             ELSE IF fault = "repo" THEN Uncaught(q, outcome)
             ELSE IF uid = 0 THEN Respond(q, 400, "Invalid or expired OTP.")
             ELSE IF ~isOTPValid(u.resetOtp, u.resetOtpExpires, q.otp, now)
                THEN Respond([q EXCEPT !.uid = uid, !.replay = Replayed(uid, "reset", q.otp)],
                             400, "Invalid or expired OTP.")
             ELSE [q EXCEPT !.pc = "save", !.sent = NoString, !.uid = uid, !.serial = curSerial[<<uid, "reset">>],
                            !.replay = Replayed(uid, "reset", q.otp)]]
        /\ UNCHANGED <<app, setups, call, config, pwSet, hits, now, users, sessions, tokens, curSerial, redeemed>>
        /\ Counted(r)

\* a save that clears the reset pair and leaves the password as it was
ClearResetOnly(u, hashedPassword) ==
    [u EXCEPT !.resetOtp = NoString, !.resetOtpExpires = NoExpiry]

\* the fields user.save() writes in /reset-password
SetPassword(u, hashedPassword) ==
    [u EXCEPT !.password = hashedPassword, !.resetOtp = NoString, !.resetOtpExpires = NoExpiry]

\* /reset-password from the hash on: bcrypt.hash, the save, the 200
ResetPasswordSave(r, fault, outcome) ==
    LET q == slot[r]
    IN  /\ Continue(r, "reset-password", "save")
        /\ IF fault # "none"
           THEN /\ slot' = [slot EXCEPT ![r] = Uncaught(q, outcome)]
                /\ UNCHANGED <<users, redeemed, pwSet>>
           ELSE /\ users' = [users EXCEPT ![q.uid] = SetPassword(@, BcryptHash(q.password))]
                /\ pwSet' = [pwSet EXCEPT ![q.uid] = q.password]
                /\ slot' = [slot EXCEPT ![r] = Respond(q, 200, "Password reset successful.")]
                /\ redeemed' = redeemed \cup
                     {[uid |-> q.uid, purpose |-> "reset", otp |-> q.otp, serial |-> q.serial]}
        /\ UNCHANGED <<app, setups, call, config, hits, now, sessions, tokens, curSerial>>
        /\ Counted(r)

(* ----------------------------- access guard ---------------------------- *)
NoHeader == [scheme |-> "", rest |-> <<>>]
\* the Authorization headers a client can send, split at the blanks: none,
\* "Bearer" alone, "Bearer " with an empty token, "Bearer <token>" (with and
\* without a trailing word) and another scheme
Headers ==
    {NoHeader, [scheme |-> "Bearer", rest |-> <<>>], [scheme |-> "Bearer", rest |-> <<EmptyToken>>]}
    \cup {[scheme |-> "Bearer", rest |-> <<t>>] : t \in tokens \cup ForgedTokens}
    \cup {[scheme |-> "Bearer", rest |-> <<t, EmptyToken>>] : t \in tokens}
    \cup {[scheme |-> "Basic", rest |-> <<t>>] : t \in tokens}
\* the headers sent to a route behind both middlewares: none, and the tokens
\* login has signed
ChainHeaders == {NoHeader} \cup {[scheme |-> "Bearer", rest |-> <<t>>] : t \in tokens}

Denied(status, body) == [user |-> {}, status |-> status, body |-> body, next |-> FALSE]
Passed(user) == [user |-> {user}, status |-> 0, body |-> "", next |-> TRUE]

\* a guard that takes whichever artifact the request carries
authenticateEither(useSession, jwtSecret, sid, header, t) ==
    IF sid # "" /\ sessions[sid] # {}
    THEN Passed(CHOOSE u \in sessions[sid] : TRUE)
    ELSE IF header.scheme = "Bearer" /\ Len(header.rest) >= 1
            /\ header.rest[1].form = "jwt"
            /\ JwtVerifyError(header.rest[1], jwtSecret, t) = ""
         THEN Passed(JwtDecoded(header.rest[1]))
    ELSE Denied(401, "Unauthorized")

\* a guard that turns away the artifacts of an identity whose password was reset
authenticateUnlessReset(useSession, jwtSecret, sid, header, t) ==
    IF useSession
    THEN IF sid # "" /\ sessions[sid] # {}
            /\ \A u \in sessions[sid] : \A x \in redeemed :
                    ~(x.uid = u._id /\ x.purpose = "reset")
         THEN Passed(CHOOSE u \in sessions[sid] : TRUE)
         ELSE Denied(401, "Unauthorized: No active session.")
    ELSE IF header.scheme = "Bearer" /\ Len(header.rest) >= 1
            /\ JwtVerifyError(header.rest[1], jwtSecret, t) = ""
            /\ \A x \in redeemed : ~(x.uid = header.rest[1].id /\ x.purpose = "reset")
         THEN Passed(JwtDecoded(header.rest[1]))
    ELSE Denied(401, "Unauthorized: Invalid token.")

\* authenticate(useSession, jwtSecret)(req, res, next) at time t, for the
\* session handle and the Authorization header of the request
authenticate(useSession, jwtSecret, sid, header, t) ==
    IF useSession
    THEN IF sid # "" /\ sessions[sid] # {}
         THEN Passed(CHOOSE u \in sessions[sid] : TRUE)
         ELSE Denied(401, "Unauthorized: No active session.")
    ELSE IF header.scheme # "Bearer" \/ Len(header.rest) = 0
         THEN Denied(401, "Unauthorized: Bearer token missing.")
    ELSE IF header.rest[1].form = "empty"
         THEN Denied(401, "Unauthorized: Token not provided.")
    ELSE IF JwtVerifyError(header.rest[1], jwtSecret, t) = "TokenExpiredError"
         THEN Denied(401, "Unauthorized: Token expired.")
    ELSE IF JwtVerifyError(header.rest[1], jwtSecret, t) # ""
         THEN Denied(401, "Unauthorized: Invalid token.")
    ELSE IF JwtDecoded(header.rest[1]).id = 0 \/ JwtDecoded(header.rest[1]).role = ""
         THEN Denied(401, "Unauthorized: Token payload incomplete.")
    ELSE Passed(JwtDecoded(header.rest[1]))

\* a check that lets every request with a role through
authorizeAnyRole(allowedRoles, reqUser) ==
    IF reqUser = {} \/ (CHOOSE u \in reqUser : TRUE).role = ""
    THEN [Denied(403, "Forbidden: No role assigned.") EXCEPT !.user = reqUser]
    ELSE [user |-> reqUser, status |-> 0, body |-> "", next |-> TRUE]

\* authorize(allowedRoles)(req, res, next) for the req.user attached
authorize(allowedRoles, reqUser) ==
    IF reqUser = {} \/ (CHOOSE u \in reqUser : TRUE).role = ""
    THEN [Denied(403, "Forbidden: No role assigned.") EXCEPT !.user = reqUser]
    ELSE IF (CHOOSE u \in reqUser : TRUE).role \notin allowedRoles
    THEN [Denied(403, "Forbidden: Insufficient permissions.") EXCEPT !.user = reqUser]
    ELSE [user |-> reqUser, status |-> 0, body |-> "", next |-> TRUE]

AllowedSets == SUBSET Roles
\* what a middleware other than authenticate may have left in req.user
AttachedUsers ==
    {{}} \cup {{[id |-> id, role |-> role]} : id \in UserIds, role \in RoleInputs \cup {""}}
\* the lists of roles a route can be restricted to
AllowedLists == SUBSET RoleInputs

GuardStep ==
    /\ Quiet
    /\ nreq' = nreq
    /\ UNCHANGED <<app, setups, call, config, pwSet, hits, now, users, sessions, tokens, slot, curSerial, redeemed>>

\* a route behind authenticate alone
AuthenticatedRoute(sid, header) ==
    LET res == authenticate(config.useSession, JwtSecret, sid, header, now)
    IN  /\ GuardStep
        /\ guard' = [route |-> "authenticate", sid |-> sid, header |-> header, allowed |-> {},
                     user |-> res.user, status |-> res.status, body |-> res.body,
                     reached |-> res.next, at |-> now]

\* a route behind authorize(allowedRoles) alone: the request waits in guard
\* with the req.user another middleware attached, or with none
AuthorizedRoute ==
    LET res == authorize(guard.allowed, guard.user)
    IN  /\ guard.route = "authorize"
        /\ guard.status = 0 /\ ~guard.reached
        /\ guard' = [guard EXCEPT !.status = res.status, !.body = res.body,
                                  !.reached = res.next]
        /\ UNCHANGED <<app, setups, call, config, pwSet, hits, now, users, sessions, tokens, slot, curSerial,
                       redeemed, nreq>>

\* a route behind authenticate, then authorize(allowedRoles)
GuardedRoute(sid, header, allowedRoles) ==
    LET res1 == authenticate(config.useSession, JwtSecret, sid, header, now)
        res == IF res1.next THEN authorize(allowedRoles, res1.user) ELSE res1
    IN  /\ GuardStep
        /\ guard' = [route |-> "guarded", sid |-> sid, header |-> header,
                     allowed |-> allowedRoles, user |-> res.user, status |-> res.status,
                     body |-> res.body, reached |-> res.next, at |-> now]

(* -------------------------------- clock -------------------------------- *)
Tick ==
    /\ Quiet
    /\ now < MaxTicks * TickMs
    /\ now' = now + TickMs
    /\ guard' = guard
    /\ UNCHANGED <<app, setups, call, config, pwSet, hits, users, sessions, tokens, slot, curSerial, redeemed, nreq>>

(* ---------------------------- specifications --------------------------- *)
EmailInputs == Emails \cup {EmailBad}
SessionInputs == Handles \cup {""}

\* the bodies clients send: every valid combination, and one body for each
\* way of being invalid
RegisterInputs ==
    [email : Emails, password : {Pw1}, role : {""}]
    \cup [email : Emails, password : {Pw2}, role : {"admin"}]
    \cup {[email |-> EmailBad, password |-> Pw1, role |-> ""],
          [email |-> EmailLower, password |-> PwShort, role |-> ""],
          [email |-> EmailLower, password |-> Pw1, role |-> "root"]}
LoginInputs ==
    [email : Emails, password : Passwords]
    \cup {[email |-> NoString, password |-> Pw1], [email |-> EmailLower, password |-> NoString]}
VerifyInputs == [email : EmailInputs, otp : OtpInputs]
ResetInputs ==
    [email : Emails, otp : GeneratedOtps, newPassword : Passwords]
    \cup {[email |-> EmailBad, otp |-> <<"0">>, newPassword |-> Pw1],
          [email |-> EmailLower, otp |-> <<"0", "1">>, newPassword |-> Pw1],
          [email |-> EmailLower, otp |-> <<"0">>, newPassword |-> PwShort]}

\* the headers a logout request carries: the token to be discarded, if any
LogoutHeaders == IF config.useSession THEN {NoHeader} ELSE ChainHeaders

\* slot r is free for a request that arrives now
CanArrive(r) == Quiet /\ slot[r].pc = "idle" /\ nreq < MaxReqs
\* the request in slot r stands at step pc
At(r, pc) == Quiet /\ slot[r].pc = pc

\* the steps of the workflow handlers for the request in slot r
Workflow(r) ==
    \/ CanArrive(r) /\ \E in \in RegisterInputs, fault \in {"none", "repo"} :
            RegisterFind(r, "others", in.email, in.password, in.role, fault)
    \/ At(r, "create") /\ \E fault \in Faults, hookThrows \in BOOLEAN :
            RegisterCreate(r, fault, hookThrows)
    \/ CanArrive(r) /\ \E in \in LoginInputs, sid \in SessionInputs, fault \in Faults,
                          hookResult \in OnLoginResults :
            LoginRoute(r, "others", in.email, in.password, sid, fault, hookResult)
    \/ CanArrive(r) /\ \E sid \in SessionInputs, header \in LogoutHeaders,
                          destroyFails \in BOOLEAN, hookThrows \in BOOLEAN :
            LogoutRoute(r, sid, header, destroyFails, hookThrows)
    \/ CanArrive(r) /\ \E purpose \in Purposes, email \in EmailInputs, fault \in {"none", "repo"},
                          outcome \in UnhandledOutcomes :
            SendOtpFind(r, purpose, email, fault, outcome)
    \/ At(r, "save") /\ \E purpose \in Purposes, bytes \in [1..OtpLength -> Bytes],
                          fault \in {"none", "repo", "mail"}, outcome \in UnhandledOutcomes :
            SendOtpSave(r, purpose, bytes, fault, outcome)
    \/ CanArrive(r) /\ \E in \in VerifyInputs, fault \in {"none", "repo"},
                          outcome \in UnhandledOutcomes :
            VerifyEmailFind(r, in.email, in.otp, fault, outcome)
    \/ At(r, "save") /\ \E fault \in {"none", "repo"}, hookThrows \in BOOLEAN,
                          outcome \in UnhandledOutcomes :
            VerifyEmailSave(r, fault, hookThrows, outcome)
    \/ CanArrive(r) /\ \E in \in ResetInputs, fault \in {"none", "repo"},
                          outcome \in UnhandledOutcomes :
            ResetPasswordFind(r, in.email, in.otp, in.newPassword, fault, outcome)
    \/ At(r, "save") /\ \E fault \in Faults, outcome \in UnhandledOutcomes :
            ResetPasswordSave(r, fault, outcome)

\* the session handles and headers that make a difference in the mode set up
GuardSessions == IF config.useSession THEN SessionInputs ELSE {""}
GuardHeaders ==
    IF config.useSession
    THEN {NoHeader, [scheme |-> "Bearer", rest |-> <<CHOOSE t \in ForgedTokens : t.id = 0>>]}
    ELSE Headers

\* no request is in flight in the slots S
Idle(S) == Quiet /\ \A r \in S : slot[r].pc = "idle"

\* requests to the guarded routes of the application, arriving when the
\* slots S are idle
Guarded(S) ==
    \/ Idle(S) /\ \E sid \in GuardSessions, header \in GuardHeaders :
            AuthenticatedRoute(sid, header)
    \/ Idle(S) /\ \E sid \in GuardSessions, header \in ChainHeaders, allowedRoles \in AllowedSets :
            GuardedRoute(sid, header, allowedRoles)

\* requests are handled concurrently: the steps of the requests in flight
\* interleave
Next ==
    \/ \E r \in Slots : Workflow(r)
    \/ Guarded({})
    \/ Deliver
    \/ Tick

Spec == Init /\ [][Next]_vars

\* requests are handled one after another: a request to a guarded route
\* arrives when no workflow request is in flight
NextSeq ==
    \/ Workflow(SeqSlot)
    \/ Guarded({SeqSlot})
    \/ Deliver
    \/ Tick

SpecSeq == Init /\ [][NextSeq]_vars

\* register and login for the requests of the client key watched, handled
\* one after another, over the windows of the limiter
NextLimit ==
    \/ CanArrive(SeqSlot) /\ \E in \in RegisterInputs, fault \in {"none", "repo"} :
            RegisterFind(SeqSlot, WatchedKey, in.email, in.password, in.role, fault)
    \/ At(SeqSlot, "create") /\ \E fault \in Faults, hookThrows \in BOOLEAN :
            RegisterCreate(SeqSlot, fault, hookThrows)
    \/ CanArrive(SeqSlot) /\ \E in \in LoginInputs, sid \in SessionInputs, fault \in Faults,
                                hookResult \in OnLoginResults :
            LoginRoute(SeqSlot, WatchedKey, in.email, in.password, sid, fault, hookResult)
    \/ \E route \in LimitedRoutes : WindowReset(route)
    \/ Deliver

SpecLimit == Init /\ [][NextLimit]_vars

\* authorize alone, on every req.user and every list of allowed roles
InitAuthorize ==
    /\ config \in Configs
    /\ now = 0
    /\ users = <<>>
    /\ sessions = [h \in Handles |-> {}]
    /\ tokens = {}
    /\ slot = [r \in Slots |-> EmptyReq]
    /\ guard \in {[EmptyGuard EXCEPT !.route = "authorize", !.user = reqUser,
                                      !.allowed = allowedRoles] :
                     reqUser \in AttachedUsers, allowedRoles \in AllowedLists}
    /\ curSerial = [k \in UserIds \X Purposes |-> 0]
    /\ redeemed = {}
    /\ pwSet = InitialPasswords(users)
    /\ hits = [route \in LimitedRoutes |-> 0]
    /\ nreq = 0
    /\ call = NoCall
    /\ app = Wired(NewApp, config.useSession, TRUE, TRUE).app
    /\ setups = [c \in SetupCalls |-> IF c = FirstCall THEN "done" ELSE "start"]

SpecAuthorize == InitAuthorize /\ [][AuthorizedRoute]_vars

\* setupAuth up to step 5: the checks of jwtSecret and db throw; with a User
\* model given the call goes on to step 6 at once, otherwise it awaits
\* createUserModel and other calls can run meanwhile
SetupStart(c, requirementsOk, userGiven, sessionOk, mailerOk) ==
    LET w == Wired(app, config.useSession, sessionOk, mailerOk)
    IN  /\ setups[c] = "start"
        /\ IF ~requirementsOk
           THEN setups' = [setups EXCEPT ![c] = "failed"] /\ app' = app
           ELSE IF userGiven
           THEN setups' = [setups EXCEPT ![c] = w.pc] /\ app' = w.app
           ELSE setups' = [setups EXCEPT ![c] = "model"] /\ app' = app
        /\ UNCHANGED <<config, now, users, sessions, tokens, slot, guard, curSerial, redeemed,
                       pwSet, hits, nreq, call>>

\* setupAuth from the return of createUserModel on
SetupWire(c, modelOk, sessionOk, mailerOk) ==
    LET w == Wired(app, config.useSession, sessionOk, mailerOk)
    IN  /\ setups[c] = "model"
        /\ IF ~modelOk
           THEN setups' = [setups EXCEPT ![c] = "failed"] /\ app' = app
           ELSE setups' = [setups EXCEPT ![c] = w.pc] /\ app' = w.app
        /\ UNCHANGED <<config, now, users, sessions, tokens, slot, guard, curSerial, redeemed,
                       pwSet, hits, nreq, call>>

\* setupAuth called several times on a new app, one call after another or
\* overlapping
InitSetup ==
    /\ config \in Configs
    /\ now = 0
    /\ users = <<>>
    /\ sessions = [h \in Handles |-> {}]
    /\ tokens = {}
    /\ slot = [r \in Slots |-> EmptyReq]
    /\ guard = EmptyGuard
    /\ curSerial = [k \in UserIds \X Purposes |-> 0]
    /\ redeemed = {}
    /\ pwSet = InitialPasswords(users)
    /\ hits = [route \in LimitedRoutes |-> 0]
    /\ nreq = 0
    /\ call = NoCall
    /\ app = NewApp
    /\ setups = [c \in SetupCalls |-> "start"]

NextSetup ==
    \E c \in SetupCalls :
        \/ \E requirementsOk \in BOOLEAN, userGiven \in BOOLEAN, sessionOk \in BOOLEAN,
              mailerOk \in BOOLEAN :
                SetupStart(c, requirementsOk, userGiven, sessionOk, mailerOk)
        \/ \E modelOk \in BOOLEAN, sessionOk \in BOOLEAN, mailerOk \in BOOLEAN :
                SetupWire(c, modelOk, sessionOk, mailerOk)

SpecSetup == InitSetup /\ [][NextSetup]_vars

\* the application set up with either role set on an empty collection,
\* requests handled one after another
InitRoles ==
    /\ config \in RoleConfigs
    /\ now = 0
    /\ users = <<>>
    /\ sessions = [h \in Handles |-> {}]
    /\ tokens = {}
    /\ slot = [r \in Slots |-> EmptyReq]
    /\ guard = EmptyGuard
    /\ curSerial = [k \in UserIds \X Purposes |-> 0]
    /\ redeemed = {}
    /\ pwSet = InitialPasswords(users)
    /\ hits = [route \in LimitedRoutes |-> 0]
    /\ nreq = 0
    /\ call = NoCall
    /\ app = Wired(NewApp, config.useSession, TRUE, TRUE).app
    /\ setups = [c \in SetupCalls |-> IF c = FirstCall THEN "done" ELSE "start"]

SpecRoles == InitRoles /\ [][NextSeq]_vars

\* the configurations setupAuth accepts for emailVerification: enabled or
\* not, requiredToLogin or not, each whatever the other is
MountConfigs == {[cfg EXCEPT !.verifyEnabled = enabled] : cfg \in Configs, enabled \in BOOLEAN}

\* the application set up with any of them, requests handled one after
\* another
InitMounted ==
    /\ config \in MountConfigs
    /\ now = 0
    /\ users \in InitialUsers
    /\ sessions = [h \in Handles |-> {}]
    /\ tokens = {}
    /\ slot = [r \in Slots |-> EmptyReq]
    /\ guard = EmptyGuard
    /\ curSerial = [k \in UserIds \X Purposes |-> 0]
    /\ redeemed = {}
    /\ pwSet = InitialPasswords(users)
    /\ hits = [route \in LimitedRoutes |-> 0]
    /\ nreq = 0
    /\ call = NoCall
    /\ app = Wired(NewApp, config.useSession, TRUE, TRUE).app
    /\ setups = [c \in SetupCalls |-> IF c = FirstCall THEN "done" ELSE "start"]

SpecMounted == InitMounted /\ [][NextSeq]_vars

\* isOTPValid alone, on stored codes, expiries and supplied codes that are set
\* or not, before, at and after the expiry
StoredCodes == GeneratedOtps \cup {NoString, <<"0", "1">>}
Expiries == {NoExpiry, OtpExpiryMinutes * MsPerMinute, 2 * OtpExpiryMinutes * MsPerMinute}
SuppliedCodes == OtpInputs \cup {NoString}
CallTimes == {0, OtpExpiryMinutes * MsPerMinute, OtpExpiryMinutes * MsPerMinute + 1}

InitOtp ==
    /\ config \in Configs
    /\ now \in CallTimes
    /\ users = <<>>
    /\ sessions = [h \in Handles |-> {}]
    /\ tokens = {}
    /\ slot = [r \in Slots |-> EmptyReq]
    /\ guard = EmptyGuard
    /\ curSerial = [k \in UserIds \X Purposes |-> 0]
    /\ redeemed = {}
    /\ pwSet = InitialPasswords(users)
    /\ hits = [route \in LimitedRoutes |-> 0]
    /\ nreq = 0
    /\ app = Wired(NewApp, config.useSession, TRUE, TRUE).app
    /\ setups = [c \in SetupCalls |-> IF c = FirstCall THEN "done" ELSE "start"]
    /\ call \in {[NoCall EXCEPT !.fn = "isOTPValid", !.args = <<storedOtp, expiry, providedOtp>>] :
                    storedOtp \in StoredCodes, expiry \in Expiries, providedOtp \in SuppliedCodes}

IsOTPValidCall ==
    /\ call.fn = "isOTPValid" /\ ~call.returned
    /\ call' = [call EXCEPT
                   !.returned = TRUE,
                   !.result = isOTPValid(call.args[1], call.args[2], call.args[3], now),
                   !.threw = isOTPValidThrows(call.args[1], call.args[2], call.args[3], now)]
    /\ UNCHANGED <<app, setups, config, now, users, sessions, tokens, slot, guard, curSerial,
                   redeemed, pwSet, hits, nreq>>

SpecOtp == InitOtp /\ [][IsOTPValidCall]_vars

\* the two password checks alone, on every policy of a sample and on
\* candidate passwords that differ in length and in the classes they hold
Policies ==
    [minLength : {2, 8}, requireUppercase : BOOLEAN, requireLowercase : BOOLEAN,
     requireNumbers : BOOLEAN, requireSymbols : BOOLEAN]
PwUnderscore == <<"p", "a", "s", "s", "w", "o", "r", "_">>
PwBang == <<"p", "a", "s", "s", "w", "o", "r", "!">>
PwUpper == <<"P", "a", "s", "s", "w", "o", "r", "d">>
PwFull == <<"P", "a", "s", "s", "w", "o", "1", "!">>
Candidates == {Pw1, PwShort, PwUnderscore, PwBang, PwUpper, PwFull}

InitPolicy ==
    /\ config \in Configs
    /\ now = 0
    /\ users = <<>>
    /\ sessions = [h \in Handles |-> {}]
    /\ tokens = {}
    /\ slot = [r \in Slots |-> EmptyReq]
    /\ guard = EmptyGuard
    /\ curSerial = [k \in UserIds \X Purposes |-> 0]
    /\ redeemed = {}
    /\ pwSet = InitialPasswords(users)
    /\ hits = [route \in LimitedRoutes |-> 0]
    /\ nreq = 0
    /\ app = Wired(NewApp, config.useSession, TRUE, TRUE).app
    /\ setups = [c \in SetupCalls |-> IF c = FirstCall THEN "done" ELSE "start"]
    /\ call \in {[NoCall EXCEPT !.fn = "passwordPolicy", !.args = <<policy, password>>] :
                    policy \in Policies, password \in Candidates}

\* the password goes through the check of register and through the check of
\* reset-password: the result says which of the two accept it
PasswordPolicyCall ==
    /\ call.fn = "passwordPolicy" /\ ~call.returned
    /\ call' = [call EXCEPT
                   !.returned = TRUE,
                   !.result = <<validatePassword(call.args[1], call.args[2]) = "",
                                resetPasswordError(call.args[1], call.args[2]) = "">>]
    /\ UNCHANGED <<app, setups, config, now, users, sessions, tokens, slot, guard, curSerial,
                   redeemed, pwSet, hits, nreq>>

SpecPolicy == InitPolicy /\ [][PasswordPolicyCall]_vars

(* ------------------------------ properties ----------------------------- *)
\* the request of handler op in slot r has ended
Done(r, op) == slot[r].op = op /\ slot[r].pc = "done"
\* the step answers, or passes on, a request of handler op that arrives in slot r
Arrives(r, op) == slot[r].pc = "idle" /\ slot'[r].op = op
\* a collaborator (repository, hasher, mailer) failed while q was handled
CollaboratorFailed(q) == q.pc = "done" /\ q.status \in {0, 500} /\ ~q.threw
\* the email belongs to a stored identity; the identity it belongs to
EmailTaken(email) == \E i \in 1..Len(users) : users[i].email = email
IdOf(email) == CHOOSE i \in 1..Len(users) : users[i].email = email
RedeemOps == {"verify-email", "reset-password"}
PurposeOf(op) == IF op = "verify-email" THEN "verify" ELSE "reset"

\* C1: among concurrent verify-email (or reset-password) requests that carry
\* the same valid code of one identity at most one is answered with success:
\* no step answers 200 for a stored code that a request has redeemed already
C1_RedeemedAtMostOnce ==
    [][\A r \in Slots :
        (slot[r].op \in RedeemOps /\ slot[r].pc = "save"
            /\ slot'[r].pc = "done" /\ slot'[r].status = 200)
        => ~\E x \in redeemed :
                /\ x.uid = slot[r].uid
                /\ x.purpose = PurposeOf(slot[r].op)
                /\ x.serial = slot[r].serial]_vars

\* C2: with requests handled one after another, a verify-email or
\* reset-password request that reaches the code check with a code already
\* redeemed for the identity, no code stored since, is answered
\* 400 "Invalid or expired OTP."
C2_ReplayRejected ==
    \A r \in Slots :
        (slot[r].op \in RedeemOps /\ slot[r].replay)
        => /\ slot[r].pc = "done"
           /\ slot[r].status = 400
           /\ slot[r].body = "Invalid or expired OTP."

C2_Witness ==
    \E r \in Slots :
        /\ Done(r, "verify-email") /\ slot[r].replay /\ slot[r].status = 400
        /\ users[slot[r].uid].verified

\* C3: login answers 200 only for an existing identity whose password
\* matches and which is verified when that is required, and a login answered
\* otherwise signs no token, writes no session and does not invoke onLogin
C3_ArtifactOnlyOnSuccess ==
    [][\A r \in Slots :
        (Arrives(r, "login") /\ slot'[r].pc = "done")
        => /\ slot'[r].status = 200
                => /\ EmailTaken(slot'[r].email)
                   /\ slot'[r].password = pwSet[IdOf(slot'[r].email)]
                   /\ config.requiredToLogin => users[IdOf(slot'[r].email)].verified
           /\ slot'[r].status # 200
                => /\ sessions' = sessions
                   /\ tokens' = tokens
                   /\ slot'[r].token = {}
                   /\ "onLogin" \notin slot'[r].hooks]_vars

\* C4: a login for a stored identity passes the credential check (is not
\* answered 401) exactly when the password submitted is the one the identity
\* was registered with or, after a reset, the one the reset set
C4_CredentialCheck ==
    \A r \in Slots :
        (Done(r, "login") /\ slot[r].uid # 0 /\ ~CollaboratorFailed(slot[r]))
        => (slot[r].status # 401 <=> slot[r].password = pwSet[slot[r].uid])

C4_Witness ==
    \E r \in Slots :
        /\ Done(r, "login") /\ slot[r].status = 200
        /\ slot[r].password = pwSet[slot[r].uid]
        /\ \E x \in redeemed : x.uid = slot[r].uid /\ x.purpose = "reset"

\* C5: a register request for an email of a stored identity leaves the
\* collection as it is, and when the request is valid and the repository
\* answers it is answered 409 "User already exists."
C5_ConflictLeavesIdentity ==
    [][\A r \in Slots :
        (Arrives(r, "register") /\ EmailTaken(slot'[r].email))
        => /\ users' = users
           /\ (/\ validateEmail(slot'[r].email)
               /\ validatePassword(defaultPasswordPolicy, slot'[r].password) = ""
               /\ slot'[r].role \in Roles
               /\ ~CollaboratorFailed(slot'[r]))
              => /\ slot'[r].pc = "done"
                 /\ slot'[r].status = 409
                 /\ slot'[r].body = "User already exists."]_vars

C5_Witness ==
    \E r \in Slots :
        /\ Done(r, "register") /\ slot[r].status = 409
        /\ EmailTaken(slot[r].email)

\* C6: when the verification is required to log in, a login with the right
\* password for an identity that is not verified issues no artifact and,
\* unless a collaborator fails, is answered 403
C6_UnverifiedForbidden ==
    [][\A r \in Slots :
        (/\ Arrives(r, "login")
         /\ config.requiredToLogin
         /\ EmailTaken(slot'[r].email)
         /\ slot'[r].password = pwSet[IdOf(slot'[r].email)]
         /\ ~users[IdOf(slot'[r].email)].verified)
        => /\ slot'[r].pc = "done"
           /\ sessions' = sessions /\ tokens' = tokens
           /\ slot'[r].token = {}
           /\ ~CollaboratorFailed(slot'[r])
                => /\ slot'[r].status = 403
                   /\ slot'[r].body = "Email not verified. Please verify before logging in."]_vars

C6_Witness ==
    \E r \in Slots :
        /\ Done(r, "login") /\ slot[r].status = 403
        /\ config.requiredToLogin
        /\ slot[r].password = pwSet[slot[r].uid]
        /\ ~users[slot[r].uid].verified

\* C7: a login for an email no identity has and a login with a wrong
\* password for an email an identity has get the same answer,
\* 401 "Invalid credentials."
C7_NoExistenceLeak ==
    \A r \in Slots :
        (/\ Done(r, "login")
         /\ slot[r].email # NoString /\ slot[r].password # NoString
         /\ ~CollaboratorFailed(slot[r])
         /\ (~EmailTaken(slot[r].email)
                \/ slot[r].password # pwSet[IdOf(slot[r].email)]))
        => /\ slot[r].status = 401
           /\ slot[r].body = "Invalid credentials."

C7_Witness ==
    \E r \in Slots :
        /\ Done(r, "login") /\ slot[r].status = 401
        /\ ~EmailTaken(slot[r].email)
        /\ \E i \in 1..Len(users) : slot[r].password = pwSet[i]

\* C8: authorize(allowedRoles) calls next exactly when an identity is
\* attached whose role is one of allowedRoles, and answers 403 otherwise
C8_AuthorizeByRole ==
    (guard.route = "authorize" /\ (guard.reached \/ guard.status # 0))
    => /\ guard.reached <=>
            \E u \in guard.user : u.role # "" /\ u.role \in guard.allowed
       /\ ~guard.reached => guard.status = 403
       /\ guard.reached => guard.status = 0

C8_Witness ==
    /\ guard.route = "authorize" /\ guard.status = 403
    /\ \E u \in guard.user : u.role # "" /\ u.role \notin guard.allowed

\* C9: authenticate calls next, with an identity attached, only for a
\* session that holds a user (stateful) or for a header "Bearer <token>" whose
\* token is signed with the secret, not expired and carries id and role
\* (stateless); every other request is answered 401 and next is not called
C9_AuthenticateOnlyValid ==
    guard.route = "authenticate"
    => /\ guard.reached =>
            /\ guard.user # {}
            /\ guard.status = 0
            /\ IF config.useSession
               THEN guard.sid # "" /\ sessions[guard.sid] = guard.user
               ELSE /\ guard.header.scheme = "Bearer"
                    /\ Len(guard.header.rest) >= 1
                    /\ LET t == guard.header.rest[1]
                       IN  /\ t.form = "jwt"
                           /\ t.sig = JwtSecret
                           /\ Sec(guard.at) < t.exp
                           /\ t.id # 0 /\ t.role # ""
                           /\ \A u \in guard.user : u.id = t.id /\ u.role = t.role
       /\ ~guard.reached => guard.status = 401 /\ guard.user = {}

C9_Witness ==
    /\ guard.route = "authenticate" /\ ~config.useSession
    /\ guard.header.scheme = "Bearer" /\ Len(guard.header.rest) >= 1
    /\ guard.header.rest[1].form = "jwt" /\ guard.header.rest[1].sig # JwtSecret
    /\ guard.status = 401 /\ ~guard.reached

\* C10: in stateless mode the token login signs for an identity carries the
\* id of that identity, authenticates as that id at every time before issue
\* time + expiresIn and is answered 401 "Unauthorized: Token expired." at
\* every time from then on
C10_TokenLifetime ==
    /\ \A r \in Slots :
        (Done(r, "login") /\ slot[r].status = 200 /\ ~config.useSession)
        => \E t \in slot[r].token :
                /\ t \in tokens
                /\ t.id = slot[r].uid
                /\ t.iat = Sec(slot[r].at)
    /\ (/\ guard.route = "authenticate" /\ ~config.useSession
        /\ guard.header.scheme = "Bearer" /\ Len(guard.header.rest) >= 1
        /\ guard.header.rest[1] \in tokens)
       => LET t == guard.header.rest[1]
          IN  IF Sec(guard.at) < t.iat + JwtExpiresIn
              THEN guard.reached /\ \A u \in guard.user : u.id = t.id
              ELSE /\ ~guard.reached
                   /\ guard.status = 401
                   /\ guard.body = "Unauthorized: Token expired."

C10_Witness ==
    /\ guard.route = "authenticate" /\ ~guard.reached
    /\ guard.header.scheme = "Bearer" /\ Len(guard.header.rest) >= 1
    /\ guard.header.rest[1] \in tokens
    /\ guard.body = "Unauthorized: Token expired."
    /\ Sec(guard.at) = guard.header.rest[1].iat + JwtExpiresIn

\* C11: a request that carries the artifact of a successful login through
\* authenticate and then authorize(A) reaches the handler exactly when the
\* role the identity is stored with is one of A, and is answered 403 otherwise
C11_RoleGate ==
    guard.route = "guarded"
    => IF config.useSession
       THEN guard.sid # ""
            => \A u \in sessions[guard.sid] :
                    /\ guard.reached <=> users[u._id].role \in guard.allowed
                    /\ ~guard.reached => guard.status = 403
       ELSE (/\ guard.header.scheme = "Bearer" /\ Len(guard.header.rest) >= 1
             /\ guard.header.rest[1] \in tokens
             /\ Sec(guard.at) < guard.header.rest[1].exp)
            => /\ guard.reached <=> users[guard.header.rest[1].id].role \in guard.allowed
               /\ ~guard.reached => guard.status = 403

C11_Witness ==
    /\ guard.route = "guarded" /\ ~config.useSession
    /\ guard.header.scheme = "Bearer" /\ Len(guard.header.rest) >= 1
    /\ guard.header.rest[1] \in tokens
    /\ users[guard.header.rest[1].id].role = "user"
    /\ guard.allowed = {"admin"}
    /\ guard.status = 403 /\ ~guard.reached

\* C12: in stateless mode the claims onLogin returned at login are in the
\* token login signs: the identity authenticate attaches for that token
\* carries them
C12_ExtensionInToken ==
    \A r \in Slots :
        (/\ Done(r, "login") /\ slot[r].status = 200 /\ ~config.useSession
         /\ \E p \in slot[r].user : p.plan # "")
        => \A t \in slot[r].token :
            LET res == authenticate(FALSE, JwtSecret, "",
                                    [scheme |-> "Bearer", rest |-> <<t>>], now)
            IN  /\ res.next
                /\ \A u \in res.user : \A p \in slot[r].user :
                        "plan" \in DOMAIN u /\ u.plan = p.plan

\* C13: in both modes the identity authenticate attaches for the artifact of
\* a login carries the _id of the stored identity in the field id, and its
\* role in the field role
C13_SameIdentity ==
    (guard.route = "authenticate" /\ guard.reached)
    => \A u \in guard.user :
            /\ "id" \in DOMAIN u /\ "role" \in DOMAIN u
            /\ u.id \in 1..Len(users)
            /\ u.role = users[u.id].role

\* C14: in stateful mode a logout answered 200 has destroyed the session
\* record, so that authenticate answers 401 on that handle, and it stays
\* without a user until a login succeeds on the handle; a logout whose
\* destroy fails is answered 500 and leaves the store as it is
C14_LogoutDestroysSession ==
    [][/\ \A r \in Slots :
            (config.useSession /\ Arrives(r, "logout"))
            => \/ /\ slot'[r].status = 200
                  /\ \E h \in Handles :
                        /\ slot'[r].sid = h
                        /\ sessions'[h] = {}
                        /\ authenticate(TRUE, JwtSecret, h, NoHeader, now)'
                              = Denied(401, "Unauthorized: No active session.")
               \/ /\ slot'[r].status = 500
                  /\ slot'[r].body = "Failed to log out."
                  /\ sessions' = sessions
       /\ \A h \in Handles :
            (sessions[h] = {} /\ sessions'[h] # {})
            => \E r \in Slots :
                    /\ Arrives(r, "login")
                    /\ slot'[r].status = 200 /\ slot'[r].sid = h]_vars

C14_Witness ==
    \E r \in Slots :
        /\ Done(r, "logout") /\ config.useSession
        /\ slot[r].status = 200
        /\ slot[r].user # {}
        /\ sessions[slot[r].sid] = {}

\* C15: in stateless mode logout is always answered 200, leaves the user
\* collection, the session store and the signed tokens as they are, and
\* every token that authenticates before it authenticates after it
C15_StatelessLogoutNoOp ==
    [][\A r \in Slots :
        (~config.useSession /\ Arrives(r, "logout"))
        => /\ slot'[r].pc = "done"
           /\ slot'[r].status = 200
           /\ users' = users /\ sessions' = sessions /\ tokens' = tokens
           /\ \A t \in tokens :
                LET header == [scheme |-> "Bearer", rest |-> <<t>>]
                IN  authenticate(FALSE, JwtSecret, "", header, now).next
                    => authenticate(FALSE, JwtSecret, "", header, now)'
                            = Passed(JwtDecoded(t))]_vars

C15_Witness ==
    \E r \in Slots :
        /\ Done(r, "logout") /\ ~config.useSession
        /\ slot[r].status = 200
        /\ \E t \in slot[r].token :
            /\ t \in tokens
            /\ authenticate(FALSE, JwtSecret, "",
                            [scheme |-> "Bearer", rest |-> <<t>>], now).next

\* C16: onLogout is invoked with the user being logged out: in stateful
\* mode with the user of the session, once the session is destroyed, and
\* never when the destroy fails (onError is); in stateless mode on every
\* logout, with the user of the token the request carries
C16_LogoutHookUser ==
    \A r \in Slots :
        Done(r, "logout")
        => /\ slot[r].status = 200 => "onLogout" \in slot[r].hooks
           /\ slot[r].status = 500
                => "onLogout" \notin slot[r].hooks /\ "onError" \in slot[r].hooks
           /\ (config.useSession /\ "onLogout" \in slot[r].hooks)
                => sessions[slot[r].sid] = {}
           /\ (~config.useSession /\ "onLogout" \in slot[r].hooks)
                => \A t \in slot[r].token :
                    authenticate(FALSE, JwtSecret, "",
                                 [scheme |-> "Bearer", rest |-> <<t>>], now).next
                    => \E u \in slot[r].user : u._id = t.id

MalformedEmail(email) == ~\E i \in 1..Len(email) : email[i] = "@"
ShortPassword(password) == Len(password) < defaultPasswordPolicy.minLength
InvalidBody(q) ==
    CASE q.op = "register" ->
            MalformedEmail(q.email) \/ ShortPassword(q.password) \/ q.role \notin Roles
      [] q.op = "login" -> q.email = NoString \/ q.password = NoString
      [] q.op \in {"send-verification-otp", "send-forgot-otp"} -> MalformedEmail(q.email)
      [] q.op = "verify-email" -> MalformedEmail(q.email) \/ Len(q.otp) # OtpLength
      [] q.op = "reset-password" ->
            MalformedEmail(q.email) \/ Len(q.otp) # OtpLength \/ ShortPassword(q.password)
      [] OTHER -> FALSE

\* C18: a request whose body fails the validation of its route is answered
\* 400 at once, whatever the collaborators would do: it never waits for the
\* repository, no identity is looked up, no hook is invoked and no artifact
\* is issued for it
C18_ValidationFirst ==
    \A r \in Slots :
        InvalidBody(slot[r])
        => /\ slot[r].pc = "done"
           /\ slot[r].status = 400
           /\ slot[r].uid = 0
           /\ slot[r].hooks = {} /\ slot[r].token = {} /\ slot[r].user = {}

C18_Witness ==
    \E r \in Slots :
        /\ Done(r, "register") /\ slot[r].status = 400
        /\ MalformedEmail(slot[r].email)
        /\ ~ShortPassword(slot[r].password) /\ slot[r].role \in Roles

\* C19: in every workflow endpoint a failure of the repository, the session
\* store, the hasher or the mailer is caught by the handler: the request is
\* answered 500 by the handler's catch (which reports to onError) and never
\* ends unanswered
C19_FailuresAnswered ==
    \A r \in Slots :
        CollaboratorFailed(slot[r])
        => /\ slot[r].status = 500
           /\ "onError" \in slot[r].hooks

\* C20: when the onRegister hook throws or rejects, registration is not rolled
\* back and the response is unchanged: the identity stays persisted, the
\* request is answered 201 with the identity, and onError is not invoked
C20_RegisterHookIsolated ==
    \A r \in Slots :
        (Done(r, "register") /\ slot[r].threw)
        => /\ slot[r].status = 201
           /\ slot[r].body = "Registration successful."
           /\ slot[r].hooks = {"onRegister"}
           /\ slot[r].uid \in 1..Len(users)
           /\ users[slot[r].uid].email = slot[r].email
           /\ slot[r].user # {}
           /\ \A u \in slot[r].user : u.email = slot[r].email

C20_Witness ==
    \E r \in Slots :
        /\ Done(r, "register") /\ slot[r].threw
        /\ slot[r].status = 201
        /\ slot[r].uid \in 1..Len(users)

\* C21: a lifecycle hook (onRegister, onLogin, onLogout, onVerify) that throws
\* or rejects never changes the outcome of its request: the answer is the
\* success the request gets without the hook, and onError is not invoked
C21_HooksIsolated ==
    \A r \in Slots :
        (slot[r].pc = "done" /\ slot[r].threw)
        => /\ slot[r].status = (IF slot[r].op = "register" THEN 201 ELSE 200)
           /\ "onError" \notin slot[r].hooks
           /\ slot[r].op = "login" => (slot[r].token # {} \/ slot[r].user # {})
           /\ slot[r].op = "verify-email" => slot[r].body = "Email verified successfully."

\* the stored code and expiry of the purpose, as a pair
SendOps == {"send-verification-otp", "send-forgot-otp"}
CodePair(u, purpose) ==
    IF purpose = "verify" THEN <<u.emailOtp, u.emailOtpExpires>>
    ELSE <<u.resetOtp, u.resetOtpExpires>>
SendPurpose(op) == IF op = "send-verification-otp" THEN "verify" ELSE "reset"

C24_IsOTPValid ==
    (call.fn = "isOTPValid" /\ call.returned)
    => /\ ~call.threw
       /\ call.result <=> /\ call.args[1] # NoString
                          /\ call.args[2] # NoExpiry
                          /\ call.args[3] # NoString
                          /\ now <= call.args[2]
                          /\ call.args[3] = call.args[1]

C24_Witness ==
    /\ call.fn = "isOTPValid" /\ call.returned
    /\ call.result /\ call.args[3] = call.args[1] /\ now = call.args[2]

\* the request in q passed the validators of the redeeming routes
WellFormed(q) == isEmail(q.email) /\ Len(q.otp) = OtpLength
\* the code supplied is the pending, unexpired code of the purpose of an
\* identity with that email
PendingCode(email, purpose, otp) ==
    \E i \in 1..Len(users) :
        /\ users[i].email = email
        /\ CodePair(users[i], purpose)[1] # NoString
        /\ CodePair(users[i], purpose)[2] # NoExpiry
        /\ CodePair(users[i], purpose)[1] = otp
        /\ now <= CodePair(users[i], purpose)[2]

C26_ResetPassword ==
    [][\A r \in Slots :
        /\ (slot[r].pc = "idle" /\ slot'[r].op = "reset-password" /\ WellFormed(slot'[r])
                /\ resetPasswordError(defaultPasswordPolicy, slot'[r].password) = ""
                /\ ~CollaboratorFailed(slot'[r]))
           => IF PendingCode(slot'[r].email, "reset", slot'[r].otp)
              THEN slot'[r].pc = "save" /\ users' = users
              ELSE /\ slot'[r].pc = "done" /\ slot'[r].status = 400
                   /\ slot'[r].body = "Invalid or expired OTP."
                   /\ users' = users
        /\ (slot[r].pc = "save" /\ slot[r].op = "reset-password" /\ slot'[r].pc = "done"
                /\ ~CollaboratorFailed(slot'[r]))
           => /\ slot'[r].status = 200 /\ slot'[r].hooks = {}
              /\ users'[slot[r].uid].password = BcryptHash(slot[r].password)
              /\ CodePair(users'[slot[r].uid], "reset") = <<NoString, NoExpiry>>
              /\ \A p \in Passwords :
                    BcryptCompare(p, users'[slot[r].uid].password) <=> p = slot[r].password
        /\ (slot[r].pc = "idle" /\ slot'[r].op = "login" /\ slot'[r].pc = "done"
                /\ slot'[r].uid # 0 /\ ~CollaboratorFailed(slot'[r])
                /\ \E x \in redeemed : x.uid = slot'[r].uid /\ x.purpose = "reset")
           => IF slot'[r].password = pwSet[slot'[r].uid]
              THEN slot'[r].status # 401
              ELSE slot'[r].status = 401 /\ slot'[r].token = {} /\ sessions' = sessions
    ]_vars

C26_Witness ==
    \E r \in Slots :
        /\ Done(r, "login") /\ slot[r].status = 401
        /\ slot[r].uid # 0
        /\ slot[r].password = Pw1 /\ pwSet[slot[r].uid] = Pw2
        /\ users[slot[r].uid].password = BcryptHash(Pw2)
        /\ \E x \in redeemed : x.uid = slot[r].uid /\ x.purpose = "reset"

\* C27: after any number of setupAuth calls on the same app, one after another
\* or overlapping, the session middleware is registered at most once, exactly
\* once when useSession is true and a call has completed, and never when
\* useSession is false
C27_SessionOnce ==
    /\ app.session <= 1
    /\ ~config.useSession => app.session = 0
    /\ (config.useSession /\ \E c \in SetupCalls : setups[c] = "done") => app.session = 1
    /\ app.sessionInitialized <=> app.session = 1

C27_Witness ==
    /\ config.useSession
    /\ Cardinality({c \in SetupCalls : setups[c] = "done"}) >= 2
    /\ app.helmet >= 2
    /\ app.session = 1

\* a header with a token signed with the secret for the identity, not expired
SignedHeader(id, role) ==
    [scheme |-> "Bearer", rest |-> <<JwtSign(id, role, JwtSecret, JwtExpiresIn, now)>>]

\* C28: the artifact kind is fixed by useSession and never mixed: in stateful
\* mode login signs and returns no token and authenticate answers the same
\* whatever the Authorization header holds; in stateless mode login writes no
\* session record, no session middleware is registered, and authenticate
\* passes a request only on its token
C28_OneArtifactKind ==
    /\ config.useSession
       => /\ tokens = {}
          /\ \A r \in Slots : Done(r, "login") => slot[r].token = {}
          /\ \A sid \in SessionInputs, id \in UserIds, role \in Roles :
                authenticate(TRUE, JwtSecret, sid, SignedHeader(id, role), now)
                    = authenticate(TRUE, JwtSecret, sid, NoHeader, now)
          /\ (guard.route = "authenticate" /\ guard.reached)
             => guard.sid # "" /\ sessions[guard.sid] = guard.user
    /\ ~config.useSession
       => /\ \A h \in Handles : sessions[h] = {}
          /\ app.session = 0
          /\ \A r \in Slots :
                (Done(r, "login") /\ slot[r].status = 200)
                => slot[r].token # {} /\ slot[r].token \subseteq tokens
          /\ (guard.route = "authenticate" /\ guard.reached)
             => /\ Presented(guard.header) # {}
                /\ \A u \in guard.user : \E t \in Presented(guard.header) : u.id = t.id
          /\ \A h \in Handles \cup {""} :
                authenticate(FALSE, JwtSecret, h, NoHeader, now)
                    = Denied(401, "Unauthorized: Bearer token missing.")

C28_Witness ==
    /\ config.useSession
    /\ guard.route = "authenticate"
    /\ guard.header.scheme = "Bearer" /\ Len(guard.header.rest) >= 1
    /\ guard.sid # "" /\ sessions[guard.sid] = {}
    /\ guard.status = 401 /\ guard.body = "Unauthorized: No active session."

\* C29: stored identity emails are unique under case normalization: no two
\* stored identities have emails that are equal once letter case is
\* normalized
C29_UniqueEmails ==
    \A i \in 1..Len(users) : \A j \in 1..Len(users) :
        normalizeEmail(users[i].email) = normalizeEmail(users[j].email) => i = j

OtherPurpose(purpose) == IF purpose = "verify" THEN "reset" ELSE "verify"

\* C30: verification and reset codes are independent: storing, redeeming and
\* clearing the code of one purpose leaves the pair of the other purpose
\* unchanged, verify-email accepts a code only when it is the pending
\* verification code and reset-password only when it is the pending reset
\* code
C30_PurposesIndependent ==
    [][\A r \in Slots :
        /\ (slot[r].pc = "save" /\ slot[r].op \in SendOps \cup RedeemOps)
           => LET purpose == IF slot[r].op \in SendOps THEN SendPurpose(slot[r].op)
                             ELSE PurposeOf(slot[r].op)
              IN  /\ CodePair(users'[slot[r].uid], OtherPurpose(purpose))
                        = CodePair(users[slot[r].uid], OtherPurpose(purpose))
                  /\ slot[r].op # "reset-password"
                     => users'[slot[r].uid].password = users[slot[r].uid].password
                  /\ slot[r].op # "verify-email"
                     => users'[slot[r].uid].verified = users[slot[r].uid].verified
        /\ (slot[r].pc = "idle" /\ slot'[r].op \in RedeemOps /\ slot'[r].pc = "save")
           => PendingCode(slot'[r].email, PurposeOf(slot'[r].op), slot'[r].otp)
    ]_vars

C30_Witness ==
    \E r \in Slots :
        /\ Done(r, "verify-email") /\ slot[r].status = 400
        /\ slot[r].body = "Invalid or expired OTP."
        /\ slot[r].uid # 0
        /\ users[slot[r].uid].resetOtp = slot[r].otp
        /\ now <= users[slot[r].uid].resetOtpExpires
        /\ users[slot[r].uid].emailOtp # slot[r].otp

\* C31: a failed verify-email or reset-password request (wrong or expired code)
\* leaves every identity record unchanged, the passing of time clears no
\* stored pair, and whatever was attempted before, a well-formed request is
\* taken on exactly when it supplies the pending, unexpired code
C31_FailedRedeemKeeps ==
    [][/\ \A r \in Slots :
            /\ (slot[r].pc = "idle" /\ slot'[r].op \in RedeemOps /\ slot'[r].pc = "done"
                    /\ slot'[r].status = 400)
               => users' = users /\ pwSet' = pwSet /\ curSerial' = curSerial
            /\ (slot[r].pc = "idle" /\ slot'[r].op \in RedeemOps /\ WellFormed(slot'[r])
                    /\ (slot'[r].op = "reset-password"
                        => resetPasswordError(defaultPasswordPolicy, slot'[r].password) = "")
                    /\ ~CollaboratorFailed(slot'[r]))
               => (slot'[r].pc = "save"
                    <=> PendingCode(slot'[r].email, PurposeOf(slot'[r].op), slot'[r].otp))
       /\ now' # now => users' = users
    ]_vars

C31_Witness ==
    \E r \in Slots :
        /\ slot[r].op \in RedeemOps /\ slot[r].pc = "done" /\ slot[r].status = 400
        /\ slot[r].uid # 0
        /\ LET pair == CodePair(users[slot[r].uid], PurposeOf(slot[r].op))
           IN  /\ pair[1] # NoString /\ pair[1] # slot[r].otp
               /\ Len(pair[1]) = Len(slot[r].otp)
               /\ now <= pair[2]

\* C32: register and reset-password apply the same password policy: for every
\* policy and every candidate password, reset-password accepts it as
\* newPassword exactly when register accepts it as password
C32_SamePolicy ==
    (call.fn = "passwordPolicy" /\ call.returned)
    => (call.result[1] <=> call.result[2])

\* C33: every stored identity's role is in the configured role set: register
\* answers 400 to a role outside the set, the default "user" of a request
\* without role included when "user" is not configured, and no step changes
\* the role of a stored identity
C33_RolesClosed ==
    [][/\ \A i \in 1..Len(users') : users'[i].role \in config.roles
       /\ \A i \in 1..Len(users) : users'[i].role = users[i].role
       /\ \A r \in Slots :
            (slot[r].pc = "idle" /\ slot'[r].op = "register"
                /\ validateEmail(slot'[r].email) /\ ~ShortPassword(slot'[r].password)
                /\ slot'[r].role \notin config.roles)
            => /\ slot'[r].pc = "done" /\ slot'[r].status = 400
               /\ slot'[r].body = RoleError(config.roles)
               /\ users' = users
    ]_vars

C33_Witness ==
    \E r \in Slots :
        /\ Done(r, "register") /\ slot[r].status = 400
        /\ slot[r].role = "user" /\ config.roles = {"admin"}
        /\ validateEmail(slot[r].email) /\ ~ShortPassword(slot[r].password)

\* C34: under any interleaving of concurrent register requests for the same
\* email, at most one identity with that email is stored and at most one
\* request is answered 201; a request that finds the email stored by the time
\* it creates the identity is answered with Conflict (409)
C34_ConcurrentRegister ==
    [][/\ \A i \in 1..Len(users') : \A j \in 1..Len(users') :
            users'[i].email = users'[j].email => i = j
       /\ \A r \in Slots :
            (slot[r].op = "register" /\ slot[r].pc = "create" /\ slot'[r].pc = "done"
                /\ EmailTaken(slot[r].email))
            => /\ users' = users
               /\ slot'[r].status = 409
    ]_vars

\* C35: in every configuration setupAuth accepts, whenever login requires a
\* verified email the send-verification-otp and verify-email endpoints are
\* mounted, so a registered identity can become verified and log in
C35_VerifyMounted ==
    requireEmailVerified(config) => RouteEnabled("verify")

\* the request in q passed the validation of its route
PassedValidation(q) ==
    CASE q.op = "login" -> q.sent # NoString /\ q.password # NoString
      [] q.op \in SendOps -> isEmail(q.sent)
      [] q.op = "verify-email" -> isEmail(q.sent) /\ Len(q.otp) = OtpLength
      [] q.op = "reset-password" ->
            /\ isEmail(q.sent) /\ Len(q.otp) = OtpLength
            /\ resetPasswordError(defaultPasswordPolicy, q.password) = ""
      [] OTHER -> FALSE

\* C36: every workflow looks an identity up under the same email key: for an
\* identity registered with the string E, login, send-verification-otp,
\* verify-email, send-forgot-otp and reset-password called with the same
\* string E all find that identity
C36_SameEmailKey ==
    \A r \in Slots :
        (/\ slot[r].pc = "done" /\ PassedValidation(slot[r])
         /\ ~CollaboratorFailed(slot[r])
         /\ EmailTaken(slot[r].sent))
        => /\ slot[r].uid # 0
           /\ users[slot[r].uid].email = slot[r].sent
           /\ slot[r].status # 404

\* C37: a successful reset-password invalidates no session artifact: the step
\* that saves the new password leaves the session records and the issued
\* tokens as they were, and authenticate answers every request (every session
\* handle, every Authorization header) after the reset as it did before it, so
\* a token issued before the reset passes until its own expiry; of the
\* identity only the password hash and the reset code pair change
C37_ResetKeepsArtifacts ==
    [][\A r \in Slots :
        (/\ slot[r].pc = "save" /\ slot[r].op = "reset-password"
         /\ slot'[r].pc = "done" /\ slot'[r].status = 200)
        => /\ sessions' = sessions /\ tokens' = tokens
           /\ \A h \in Handles \cup {""} : \A hd \in Headers :
                 authenticate(config.useSession, JwtSecret, h, hd, now)'
                     = authenticate(config.useSession, JwtSecret, h, hd, now)
           /\ \A t \in tokens :
                 authenticate(FALSE, JwtSecret, "", [scheme |-> "Bearer", rest |-> <<t>>], now)'
                     = IF Sec(now) >= t.exp
                       THEN Denied(401, "Unauthorized: Token expired.")
                       ELSE Passed(JwtDecoded(t))
           /\ \A i \in 1..Len(users) :
                 users'[i] = IF i = slot[r].uid
                             THEN [users[i] EXCEPT !.password = users'[i].password,
                                                   !.resetOtp = NoString,
                                                   !.resetOtpExpires = NoExpiry]
                             ELSE users[i]
    ]_vars

C37_Witness ==
    \E r \in Slots :
        /\ Done(r, "reset-password") /\ slot[r].status = 200
        /\ pwSet[slot[r].uid] = Pw2 /\ users[slot[r].uid].password = BcryptHash(Pw2)
        /\ \E t \in tokens :
              /\ t.id = slot[r].uid
              /\ authenticate(FALSE, JwtSecret, "", [scheme |-> "Bearer", rest |-> <<t>>], now)
                    = Passed(JwtDecoded(t))

\* C38: an identity's verified flag is false when it is registered, becomes
\* true only in the save of a verify-email request, which is reached only by a
\* request that presented the code stored for that identity, unexpired, and
\* once true it never becomes false again
C38_VerifiedFlag ==
    [][/\ \A i \in 1..Len(users') :
            /\ i > Len(users) => ~users'[i].verified
            /\ (i <= Len(users) /\ users[i].verified) => users'[i].verified
            /\ (i <= Len(users) /\ ~users[i].verified /\ users'[i].verified)
               => \E r \in Slots :
                     /\ slot[r].op = "verify-email" /\ slot[r].pc = "save"
                     /\ slot[r].uid = i /\ slot'[r].pc = "done"
       /\ \A r \in Slots :
            (slot'[r].op = "verify-email" /\ slot'[r].pc = "save" /\ slot[r].pc # "save")
            => /\ slot'[r].uid \in 1..Len(users)
               /\ users[slot'[r].uid].email = slot'[r].email
               /\ users[slot'[r].uid].emailOtp = slot'[r].otp
               /\ slot'[r].otp # NoString
               /\ now <= users[slot'[r].uid].emailOtpExpires
               /\ users' = users
    ]_vars

C38_Witness ==
    \E r \in Slots :
        /\ Done(r, SendOp("verify")) /\ slot[r].status = 200
        /\ users[slot[r].uid].verified
        /\ users[slot[r].uid].emailOtp # NoString
        /\ \E x \in redeemed : x.uid = slot[r].uid /\ x.purpose = "verify"

\* C39: issuing a new code replaces the previous one: once a send request has
\* stored its code, the newly issued code is the only code that isOTPValid
\* accepts for that purpose of the identity, whatever pair was stored before;
\* a redeem request whose code differs from the stored one is answered 400 and
\* changes nothing even though the code it names may not have expired; one
\* pair per purpose is all an identity holds
C39_NewCodeReplaces ==
    [][\A r \in Slots :
        /\ (slot[r].pc = "save" /\ slot[r].op \in SendOps /\ users' # users)
           => LET pair == CodePair(users'[slot[r].uid], SendPurpose(slot[r].op))
              IN  /\ pair = <<slot'[r].otp, now + OtpLifetimeMs>>
                  /\ slot'[r].otp \in GeneratedOtps
                  /\ \A c \in OtpInputs :
                        isOTPValid(pair[1], pair[2], c, now) <=> c = slot'[r].otp
                  /\ curSerial'[<<slot[r].uid, SendPurpose(slot[r].op)>>]
                        = curSerial[<<slot[r].uid, SendPurpose(slot[r].op)>>] + 1
        /\ (slot[r].pc = "save" /\ slot[r].op \in SendOps /\ slot'[r].pc = "done"
                /\ slot'[r].status = 200)
           => users' # users \/ CodePair(users[slot[r].uid], SendPurpose(slot[r].op))
                                 = <<slot'[r].otp, now + OtpLifetimeMs>>
        /\ (slot[r].pc = "idle" /\ slot'[r].op \in RedeemOps /\ slot'[r].uid # 0
                /\ ~CollaboratorFailed(slot'[r])
                /\ slot'[r].otp # CodePair(users[slot'[r].uid], PurposeOf(slot'[r].op))[1])
           => /\ slot'[r].pc = "done" /\ slot'[r].status = 400
              /\ users' = users
    ]_vars

\* a code that generateOTP produces, other than the one stored by the second
\* send, is turned away while the stored pair has not expired
C39_Witness ==
    \E r \in Slots :
        /\ Done(r, "verify-email") /\ slot[r].status = 400
        /\ slot[r].body = "Invalid or expired OTP."
        /\ slot[r].uid # 0
        /\ curSerial[<<slot[r].uid, "verify">>] >= 2
        /\ slot[r].otp \in GeneratedOtps
        /\ users[slot[r].uid].emailOtp \in GeneratedOtps \ {slot[r].otp}
        /\ now <= users[slot[r].uid].emailOtpExpires

====
